---- MODULE Spec2Model ----
(***************************************************************************)
(* A model of the clinical x-ray dosimetry calculator                      *)
(* (src/clinical_xray_app): the ESAKCalculator class, the configuration    *)
(* export of DataExporter and the session logic of the Streamlit front     *)
(* end.                                                                    *)
(*                                                                         *)
(* Python values are modelled as follows.                                  *)
(*   - a dict is a function whose domain is its set of keys;               *)
(*   - None is the empty sequence <<>> and a present value v is <<v>>;     *)
(*   - a real number is an exact fraction <<n, d>> in lowest terms, d > 0; *)
(*   - a mutable list or dict that several names can refer to lives in a   *)
(*     heap (lists, dicts) and is referred to by its index in that heap.   *)
(***************************************************************************)
EXTENDS Integers, Sequences, FiniteSets, TLC

VARIABLES
    sp_available,   \* esak_calculator.py: the module global sp is not None
    bsf_file,       \* the packaged monoBSFw.npz data file can be found
    calc,           \* one ESAKCalculator: [spectrum, parameters, results]
    lists,          \* heap of Python list objects (the filter lists)
    dicts,          \* heap of Python dict objects (the results dictionaries)
    returned,       \* the records calculate_all_metrics returned to its caller
    consec,         \* calculate_all_metrics calls made in a row, nothing between
    ops,            \* method calls made so far
    other,          \* a second ESAKCalculator in the same heaps, or None
    run_last,       \* filter scenarios: the calculation made after the last edit
    run_edit,       \* filter scenarios: what the last edit was
    file,           \* the configuration file in the exporter's output directory
    file_src,       \* the parameter dict the file was written from
    loaded,         \* what load_configuration returned for the file
    exported,       \* arguments and outcome of the call just made, if export_all_formats
    inputs,         \* app.py: what the sidebar widgets hold
    session,        \* app.py: st.session_state
    shown,          \* app.py: what the last script run put on the page
    computed_from,  \* app.py: the arguments of the last perform_calculation
    now,            \* app.py: the clock, counted in user interactions
    devices,        \* device_config.py: DeviceManager._devices, in insertion order
    device_objects, \* heap of DeviceConfiguration objects
    device_ops,     \* calls made on the device manager so far
    device_call,    \* the last of them: method, arguments and return value
    frame,          \* metrics.py: arguments and locals of one get_metrics call
    spek_log        \* metrics.py: the spectra the call asked the engine for

vars == <<sp_available, bsf_file, calc, lists, dicts, returned, consec, ops, other,
          run_last, run_edit, file, file_src, loaded, exported,
          inputs, session, shown, computed_from, now,
          devices, device_objects, device_ops, device_call,
          frame, spek_log>>

calcVars == <<calc, lists, dicts, returned, consec, ops, other>>
runVars == <<run_last, run_edit>>
exportVars == <<file, file_src, loaded, exported>>
appVars == <<inputs, session, shown, computed_from, now>>
deviceVars == <<devices, device_objects, device_ops, device_call>>
metricsVars == <<frame, spek_log>>

(***************************************************************************)
(* Bounds of the model.                                                    *)
(***************************************************************************)
MaxFilters == 2         \* longest filter list
MaxOps == 4             \* method calls made on one calculator
MaxTotalThickness == 3  \* summed thickness of a scenario's filter list
MaxInteractions == 3    \* widget changes and button clicks in one session
MaxDeviceOps == 4       \* calls made on the device manager

(***************************************************************************)
(* Exact fractions.                                                        *)
(***************************************************************************)
RECURSIVE GCD(_, _)
GCD(a, b) == IF b = 0 THEN a ELSE GCD(b, a % b)

Abs(n) == IF n < 0 THEN -n ELSE n

Norm(n, d) == LET g == GCD(Abs(n), d) IN <<n \div g, d \div g>>

Whole(n) == <<n, 1>>

RMul(a, b) ==
    LET g1 == GCD(Abs(a[1]), b[2])
        g2 == GCD(Abs(b[1]), a[2])
    IN  <<(a[1] \div g1) * (b[1] \div g2), (a[2] \div g2) * (b[2] \div g1)>>

\* a / b for b > 0
RDiv(a, b) == RMul(a, <<b[2], b[1]>>)

RAdd(a, b) ==
    LET g == GCD(a[2], b[2])
    IN  Norm(a[1] * (b[2] \div g) + b[1] * (a[2] \div g), a[2] * (b[2] \div g))

RLess(a, b) ==
    LET g == GCD(a[2], b[2])
    IN  a[1] * (b[2] \div g) < b[1] * (a[2] \div g)

RECURSIVE Pow(_, _)
Pow(b, e) == IF e = 0 THEN 1 ELSE b * Pow(b, e - 1)

\* f"{v:.3f}": v rounded to a whole number of thousandths (v >= 0)
Round3(v) == (2000 * v[1] + v[2]) \div (2 * v[2])

(***************************************************************************)
(* Python dicts and optional values.                                       *)
(***************************************************************************)
EmptyDict == <<>>
None == <<>>
Some(v) == <<v>>
Has(d, k) == k \in DOMAIN d
Get(d, k, default) == IF Has(d, k) THEN d[k] ELSE default
Put(d, k, v) == (k :> v) @@ d
Update(d, e) == e @@ d

\* F applied to the value of v, which is computed once
Let(v, F(_)) == CHOOSE r \in {F(x) : x \in {v}} : TRUE

(***************************************************************************)
(* The spectrum engine (spekpy), reduced to two energy bins.  A spectrum   *)
(* is the tube potential, the anode angle and, per bin, the accumulated    *)
(* attenuation exponent mut: the fluence of bin b is F0[b] / 2^mut[b].     *)
(***************************************************************************)
EBins == <<30, 60>>          \* bin energies, keV
MuenAir == <<2, 1>>          \* mass energy-absorption coefficient of air

Materials == {"Al", "Be", "Cu"}

\* attenuation exponent per thickness unit, per bin
Mu(m) == CASE m = "Al" -> <<2, 1>>
           [] m = "Be" -> <<1, 0>>
           [] m = "Cu" -> <<4, 2>>

\* unfiltered fluence per bin
F0(kvp) == <<2, IF kvp >= 100 THEN 2 ELSE 1>>

Spek(kvp, th) == [kvp |-> kvp, th |-> th, mut |-> <<0, 0>>]

\* Spek.filter raises for a material the engine does not know
FilterRaises(matl, t) == matl \notin Materials

SpekFilter(s, matl, t) ==
    [s EXCEPT !.mut = <<@[1] + Mu(matl)[1] * t, @[2] + Mu(matl)[2] * t>>]

\* a fluence below the smallest positive float (2^-1074) is 0.0
Phi(s, b) ==
    IF s.mut[b] > 1075 THEN Whole(0)
    ELSE Norm(F0(s.kvp)[b], Pow(2, s.mut[b]))

\* Spek.get_spectrum(): the bin energies and the fluence per bin
get_spectrum(s) == [k |-> EBins, phi_k |-> <<Phi(s, 1), Phi(s, 2)>>]

\* contribution of bin b to the air kerma: k * phi * muen
KermaBin(s, b) == RMul(Whole(EBins[b] * MuenAir[b]), Phi(s, b))

\* Spek.get_kerma(): air kerma per mAs at 100 cm, uGy
get_kerma(s) == RAdd(KermaBin(s, 1), KermaBin(s, 2))

\* share of bin b in the air kerma
Share(s, b) == RDiv(KermaBin(s, b), get_kerma(s))

\* Spek.get_hvl1(matl): the kerma-weighted mean of the two bins' half-value
\* thicknesses 1 / Mu(matl)[b]
get_hvl1(s, matl) ==
    RAdd(RMul(Share(s, 1), <<1, Mu(matl)[1]>>),
         RMul(Share(s, 2), <<1, Mu(matl)[2]>>))

\* Spek.get_hvl2(): the half-value layer of the beam behind one more unit of Al
get_hvl2(s) == get_hvl1(SpekFilter(s, "Al", 1), "Al")

get_flu(s) == RAdd(Phi(s, 1), Phi(s, 2))

get_eflu(s) ==
    RAdd(RMul(Whole(EBins[1]), Phi(s, 1)), RMul(Whole(EBins[2]), Phi(s, 2)))

get_emean(s) == RDiv(get_eflu(s), get_flu(s))

get_eeff(s) ==
    RAdd(RMul(Share(s, 1), Whole(EBins[1])), RMul(Share(s, 2), Whole(EBins[2])))

get_hc(s) == RDiv(get_hvl1(s, "Al"), get_hvl2(s))

(***************************************************************************)
(* The backscatter table monoBSFw.npz and its interpolator, queried at     *)
(* grid nodes; a point outside the grid gets the fill value 1.0.           *)
(***************************************************************************)
SSD_data == <<50, 100>>
K_data == <<30, 60>>
D_data == <<10, 20>>

Index(axis, v) == CHOOSE i \in 1..Len(axis) : axis[i] = v

Bw_data(ssd, k, d) == <<3 + Index(K_data, k) + Index(D_data, d), 4>>

InAxis(axis, v) == \E i \in 1..Len(axis) : axis[i] = v

\* faulty variant: a point outside the grid gets the fill value 0
bsf_interpolator_zero_fill(ssd, k, d) ==
    IF InAxis(SSD_data, ssd) /\ InAxis(K_data, k) /\ InAxis(D_data, d)
    THEN Norm(Bw_data(ssd, k, d)[1], Bw_data(ssd, k, d)[2])
    ELSE Whole(0)

bsf_interpolator(ssd, k, d) ==
    IF InAxis(SSD_data, ssd) /\ InAxis(K_data, k) /\ InAxis(D_data, d)
    THEN Norm(Bw_data(ssd, k, d)[1], Bw_data(ssd, k, d)[2])
    ELSE Whole(1)

(***************************************************************************)
(* ESAKCalculator.  Every method is an operator on a machine state         *)
(*   m = [spectrum, parameters, results, lists, dicts]                     *)
(* (the three fields of the instance and the two heaps); a method that     *)
(* returns a value yields [m |-> the state afterwards, ret |-> the value]. *)
(* parameters["filters"] is the index of a list in m.lists and results is  *)
(* the index of a dict in m.dicts.                                         *)
(***************************************************************************)
Machine(c, ls, ds) ==
    [spectrum |-> c.spectrum, parameters |-> c.parameters,
     results |-> c.results, lists |-> ls, dicts |-> ds]

\* faulty variant: results is one dict of the class, shared by all instances
ESAKCalculator_shared_results(ls, ds) ==
    [spectrum |-> None, parameters |-> EmptyDict, results |-> 1,
     lists |-> ls, dicts |-> IF ds = <<>> THEN <<EmptyDict>> ELSE ds]

\* __init__: no spectrum, empty parameters, a new empty results dict
ESAKCalculator(ls, ds) ==
    [spectrum |-> None, parameters |-> EmptyDict, results |-> Len(ds) + 1,
     lists |-> ls, dicts |-> Append(ds, EmptyDict)]

\* faulty variant: the seven values are written into the dict that is there
set_clinical_parameters_updating(m, kvp, ma, time_s, anode_angle, target_material, ssd_cm) ==
    [m EXCEPT !.parameters =
        Update(@, [kvp |-> kvp, ma |-> ma, time_s |-> time_s, mas |-> ma * time_s,
                   anode_angle |-> anode_angle, target_material |-> target_material,
                   ssd_cm |-> ssd_cm])]

\* faulty variant: mas is the tube current alone
set_clinical_parameters_mas_is_ma(m, kvp, ma, time_s, anode_angle, target_material, ssd_cm) ==
    [m EXCEPT !.parameters =
        [kvp |-> kvp, ma |-> ma, time_s |-> time_s, mas |-> ma,
         anode_angle |-> anode_angle, target_material |-> target_material,
         ssd_cm |-> ssd_cm]]

set_clinical_parameters(m, kvp, ma, time_s, anode_angle, target_material, ssd_cm) ==
    [m EXCEPT !.parameters =
        [kvp |-> kvp, ma |-> ma, time_s |-> time_s, mas |-> ma * time_s,
         anode_angle |-> anode_angle, target_material |-> target_material,
         ssd_cm |-> ssd_cm]]

\* faulty variant: every call starts the filter list anew
add_filtration_replacing(m, material, thickness_mm) ==
    [m EXCEPT !.lists = Append(@, <<[material |-> material,
                                    thickness_mm |-> thickness_mm]>>),
              !.parameters = Put(@, "filters", Len(m.lists) + 1)]

\* faulty variant: a thickness of 0 is taken as "not given" and becomes 1
add_filtration_defaulting(m, material, thickness_mm) ==
    LET m1 == IF Has(m.parameters, "filters") THEN m
              ELSE [m EXCEPT !.lists = Append(@, <<>>),
                             !.parameters = Put(@, "filters", Len(m.lists) + 1)]
        id == m1.parameters["filters"]
    IN  [m1 EXCEPT !.lists[id] =
            Append(@, [material |-> material,
                       thickness_mm |-> IF thickness_mm = 0 THEN 1 ELSE thickness_mm])]

add_filtration(m, material, thickness_mm) ==
    LET m1 == IF Has(m.parameters, "filters") THEN m
              ELSE [m EXCEPT !.lists = Append(@, <<>>),
                             !.parameters = Put(@, "filters", Len(m.lists) + 1)]
        id == m1.parameters["filters"]
    IN  [m1 EXCEPT !.lists[id] =
            Append(@, [material |-> material, thickness_mm |-> thickness_mm])]

set_field_parameters(m, field_size_cm, phantom_material) ==
    [m EXCEPT !.parameters =
        Update(@, [field_size_cm |-> field_size_cm,
                   phantom_material |-> phantom_material])]

\* the filter list of the parameters, [] when there is no "filters" key
FiltersOf(m) ==
    IF Has(m.parameters, "filters") THEN m.lists[m.parameters["filters"]] ELSE <<>>

\* index of the first filter, from i on, on which Spek.filter raises; 0 if none
RECURSIVE FirstRaising(_, _)
FirstRaising(fl, i) ==
    IF i > Len(fl) THEN 0
    ELSE IF FilterRaises(fl[i].material, fl[i].thickness_mm) THEN i
    ELSE FirstRaising(fl, i + 1)

\* faulty variant: the loop stops after the first filter
ApplyFilters_first_only(sp, fl, n) ==
    IF n = 0 THEN sp ELSE SpekFilter(sp, fl[1].material, fl[1].thickness_mm)

\* faulty variant: each filter is applied to the unfiltered spectrum
ApplyFilters_last_only(sp, fl, n) ==
    IF n = 0 THEN sp ELSE SpekFilter(sp, fl[n].material, fl[n].thickness_mm)

\* the spectrum after spectrum.filter was called for the first n filters
RECURSIVE ApplyFilters(_, _, _)
ApplyFilters(sp, fl, n) ==
    IF n = 0 THEN sp
    ELSE SpekFilter(ApplyFilters(sp, fl, n - 1),
                    fl[n].material, fl[n].thickness_mm)

generate_spectrum(m) ==
    IF ~sp_available THEN [m |-> m, ret |-> FALSE]
    ELSE IF DOMAIN m.parameters = {} THEN [m |-> m, ret |-> FALSE]
    ELSE IF ~Has(m.parameters, "kvp") \/ ~Has(m.parameters, "anode_angle")
         THEN [m |-> m, ret |-> FALSE]       \* KeyError, caught
    ELSE LET new == Spek(m.parameters["kvp"], m.parameters["anode_angle"])
             fl == FiltersOf(m)
             bad == FirstRaising(fl, 1)
         IN  IF bad = 0
             THEN [m |-> [m EXCEPT !.spectrum = Some(ApplyFilters(new, fl, Len(fl)))],
                   ret |-> TRUE]
             \* self.spectrum was assigned before the filter raised
             ELSE [m |-> [m EXCEPT !.spectrum = Some(ApplyFilters(new, fl, bad - 1))],
                   ret |-> FALSE]

\* "if self.spectrum is None: if not self.generate_spectrum(): return ..."
EnsureSpectrum(m) ==
    IF m.spectrum = None THEN generate_spectrum(m) ELSE [m |-> m, ret |-> TRUE]

\* faulty variant: the kerma at 100 cm is not corrected for the distance
esak_body_uncorrected(g) ==
    IF ~g.ret THEN [m |-> g.m, ret |-> Whole(0)]
    ELSE LET t == g.m
             kerma_per_mas == get_kerma(t.spectrum[1])
             esak_mgy == RDiv(RMul(kerma_per_mas, Whole(t.parameters["mas"])),
                              Whole(1000))
         IN  [m |-> [t EXCEPT !.dicts[t.results] =
                        Update(@, [esak_mgy |-> esak_mgy,
                                   kerma_per_mas_ugy |-> kerma_per_mas,
                                   distance_correction |-> Whole(1)])],
              ret |-> esak_mgy]

\* faulty variant: the kerma per mAs is stored as soon as it is read, before
\* the distance correction is computed
esak_body_stores_early(g) ==
    LET t == g.m
        p == t.parameters
    IN  IF ~g.ret THEN [m |-> t, ret |-> Whole(0)]
        ELSE LET kerma_per_mas == get_kerma(t.spectrum[1])
                 t1 == [t EXCEPT !.dicts[t.results] =
                            Put(@, "kerma_per_mas_ugy", kerma_per_mas)]
             IN  IF ~Has(p, "mas") \/ ~Has(p, "ssd_cm") \/ p["ssd_cm"] = 0
                 THEN [m |-> t1, ret |-> Whole(0)]
                 ELSE LET ratio == RDiv(Whole(100), Whole(p["ssd_cm"]))
                          distance_correction == RMul(ratio, ratio)
                          esak_mgy == RDiv(RMul(RMul(kerma_per_mas, Whole(p["mas"])),
                                                distance_correction), Whole(1000))
                      IN  [m |-> [t1 EXCEPT !.dicts[t.results] =
                                     Update(@, [esak_mgy |-> esak_mgy,
                                                distance_correction |-> distance_correction])],
                           ret |-> esak_mgy]

\* the body of calculate_esak once the spectrum was looked for: g is what
\* EnsureSpectrum yielded
esak_body(g) ==
    LET t == g.m
        p == t.parameters
    IN  IF ~g.ret THEN [m |-> t, ret |-> Whole(0)]
        ELSE IF ~Has(p, "mas") \/ ~Has(p, "ssd_cm") THEN [m |-> t, ret |-> Whole(0)]
        ELSE IF p["ssd_cm"] = 0 THEN [m |-> t, ret |-> Whole(0)]  \* ZeroDivisionError
        ELSE LET kerma_per_mas == get_kerma(t.spectrum[1])
                 total_kerma_ugy == RMul(kerma_per_mas, Whole(p["mas"]))
                 ratio == RDiv(Whole(100), Whole(p["ssd_cm"]))
                 distance_correction == RMul(ratio, ratio)
                 corrected_kerma_ugy == RMul(total_kerma_ugy, distance_correction)
                 esak_mgy == RDiv(corrected_kerma_ugy, Whole(1000))
             IN  [m |-> [t EXCEPT !.dicts[t.results] =
                            Update(@, [esak_mgy |-> esak_mgy,
                                       kerma_per_mas_ugy |-> kerma_per_mas,
                                       distance_correction |-> distance_correction])],
                  ret |-> esak_mgy]

calculate_esak(m) == Let(EnsureSpectrum(m), LAMBDA g : esak_body(g))

\* the body of calculate_bsf from its try block on, on the state t
bsf_body(t) ==
    IF ~bsf_file THEN [m |-> t, ret |-> Whole(1)]
    ELSE LET field_size == Get(t.parameters, "field_size_cm", 10)
             ssd == Get(t.parameters, "ssd_cm", 100)
             sd == get_spectrum(t.spectrum[1])
             w(b) == RMul(Whole(sd.k[b] * MuenAir[b]), sd.phi_k[b])
             bsf_mono(b) == bsf_interpolator(ssd, sd.k[b], field_size)
             numerator == RAdd(RMul(w(1), bsf_mono(1)), RMul(w(2), bsf_mono(2)))
             denominator == RAdd(w(1), w(2))
             bsf_spectrum == IF denominator[1] > 0
                             THEN RDiv(numerator, denominator)
                             ELSE Whole(1)
         IN  [m |-> [t EXCEPT !.dicts[t.results] = Put(@, "bsf", bsf_spectrum)],
              ret |-> bsf_spectrum]

calculate_bsf(m) ==
    IF ~sp_available THEN [m |-> m, ret |-> Whole(1)]
    ELSE Let(EnsureSpectrum(m),
             LAMBDA g : IF ~g.ret THEN [m |-> g.m, ret |-> Whole(1)]
                        ELSE bsf_body(g.m))

\* the values calculate_beam_quality_parameters reads from the spectrum
beam_quality(sp) ==
    [hvl1_al_mm |-> get_hvl1(sp, "Al"),
     hvl2_al_mm |-> get_hvl2(sp),
     hvl1_cu_mm |-> get_hvl1(sp, "Cu"),
     mean_energy_kev |-> get_emean(sp),
     effective_energy_kev |-> get_eeff(sp),
     total_fluence |-> get_flu(sp),
     energy_fluence_kev |-> get_eflu(sp),
     homogeneity_coefficient |-> get_hc(sp)]

calculate_beam_quality_parameters(m) ==
    Let(EnsureSpectrum(m),
        LAMBDA g :
            IF ~g.ret THEN [m |-> g.m, ret |-> EmptyDict]
            ELSE Let(beam_quality(g.m.spectrum[1]),
                     LAMBDA bq : [m |-> [g.m EXCEPT !.dicts[g.m.results] = Update(@, bq)],
                                  ret |-> bq]))

calculate_esak_with_bsf(m) ==
    Let(calculate_esak(m),
        LAMBDA a :
            IF Has(a.m.parameters, "field_size_cm")
            THEN Let(calculate_bsf(a.m),
                     LAMBDA b :
                         [m |-> [b.m EXCEPT !.dicts[b.m.results] =
                                    Put(@, "esak_with_bsf_mgy", RMul(a.ret, b.ret))],
                          ret |-> RMul(a.ret, b.ret)])
            ELSE a)

\* all_results, built from the state t the three calls left and from what
\* they returned
all_results(t, esak, esak_with_bsf, bq) ==
    LET notes == [reference_distance_cm |-> 100,
                  kerma_units |-> "Air kerma per mAs at 100 cm",
                  esak_definition |->
                      "Entrance Surface Air Kerma corrected for actual SSD"]
        base == Update([parameters |-> t.parameters, esak_mgy |-> esak], bq)
        bsf_value == Get(t.dicts[t.results], "bsf", Whole(1))
    IN  IF Has(t.parameters, "field_size_cm")
        THEN Update(base,
                [esak_with_bsf_mgy |-> esak_with_bsf,
                 bsf |-> bsf_value,
                 calculation_notes |->
                    Put(notes, "bsf_note",
                        <<"BSF correction applied for field size", Round3(bsf_value)>>)])
        ELSE Update(base,
                [bsf |-> Whole(1),
                 calculation_notes |->
                    Put(notes, "bsf_note", <<"BSF = 1.0 (no field size specified)">>)])

\* returns the index of the new results dict in ret
calculate_all_metrics(m) ==
    Let(calculate_esak(m),
        LAMBDA a :
    Let(calculate_esak_with_bsf(a.m),
        LAMBDA b :
    Let(calculate_beam_quality_parameters(b.m),
        LAMBDA c :
            [m |-> [c.m EXCEPT !.dicts = Append(@, all_results(c.m, a.ret, b.ret, c.ret)),
                               !.results = Len(c.m.dicts) + 1],
             ret |-> Len(c.m.dicts) + 1])))

\* faulty variant: the value is formatted as a number whatever it is, which
\* raises for the text 'N/A' (None stands for the exception)
safe_format_unchecked(value, digits) ==
    IF Len(value) = 2
    THEN Some([digits |-> digits,
               shown |-> (2 * Pow(10, digits) * value[1] + value[2]) \div (2 * value[2])])
    ELSE None

\* safe_format of get_summary_text: a number is shown rounded to the given
\* number of decimals (as the integer of its last shown digit's unit); any
\* other value, here the default <<"N/A">>, is shown as it is
safe_format(value, digits) ==
    IF Len(value) = 2
    THEN Some([digits |-> digits,
               shown |-> (2 * Pow(10, digits) * value[1] + value[2]) \div (2 * value[2])])
    ELSE Some(value[1])

\* ret is the list of the summary's lines, each the pieces of its f-string,
\* or None when formatting a line raised
get_summary_text(m) ==
    Let(IF DOMAIN m.dicts[m.results] = {} THEN calculate_all_metrics(m).m ELSE m,
        LAMBDA t :
            LET p == t.parameters
                r == t.dicts[t.results]
                par(label, key, unit) == <<label, Get(p, key, "N/A"), unit>>
                res(label, key, digits, unit) ==
                    <<label, safe_format(Get(r, key, <<"N/A">>), digits), unit>>
                fl == FiltersOf(t)
                filtration ==
                    IF Has(p, "filters")
                    THEN [i \in 1..Len(fl) |->
                            <<"  ", fl[i].material, ": ", fl[i].thickness_mm, " mm">>]
                    ELSE <<<<"  None specified">>>>
                results_lines ==
                    <<res("  ESAK: ", "esak_mgy", 3, " mGy"),
                      res("  Air Kerma per mAs: ", "kerma_per_mas_ugy", 2, " uGy/mAs"),
                      res("  HVL1 (Al): ", "hvl1_al_mm", 2, " mm"),
                      res("  HVL1 (Cu): ", "hvl1_cu_mm", 3, " mm"),
                      res("  Mean Energy: ", "mean_energy_kev", 1, " keV"),
                      res("  Effective Energy: ", "effective_energy_kev", 1, " keV"),
                      res("  Homogeneity Coefficient: ", "homogeneity_coefficient", 3, "")>>
                summary_lines ==
                    <<<<"=== X-ray Dosimetry Calculation Results ===">>,
                      <<"">>,
                      <<"Clinical Parameters:">>,
                      par("  Tube Voltage: ", "kvp", " kVp"),
                      par("  Tube Current: ", "ma", " mA"),
                      par("  Exposure Time: ", "time_s", " s"),
                      par("  mAs: ", "mas", ""),
                      par("  Anode Angle: ", "anode_angle", " deg"),
                      par("  SSD: ", "ssd_cm", " cm"),
                      <<"">>,
                      <<"Filtration:">>>>
                    \o filtration
                    \o <<<<"">>, <<"Dosimetric Results:">>>>
                    \o SubSeq(results_lines, 1, 2)
                    \o <<<<"">>, <<"Beam Quality Parameters:">>>>
                    \o SubSeq(results_lines, 3, 7)
            IN  [m |-> t,
                 ret |-> IF \E i \in 1..7 : results_lines[i][2] = None
                         THEN None ELSE summary_lines])

\* a dict of the heap as its holder reads it: the echoed filter list read
\* through the reference
View(m, id) ==
    LET d == m.dicts[id]
    IN  IF Has(d, "parameters") /\ Has(d["parameters"], "filters")
        THEN Put(d, "parameters",
                 Put(d["parameters"], "filters", m.lists[d["parameters"]["filters"]]))
        ELSE d

(***************************************************************************)
(* Inputs.                                                                 *)
(***************************************************************************)
FilterMaterials == {"Al", "Xx"}         \* "Xx": a name the engine rejects
FieldSizes == {10, 40}                    \* 40 lies outside the table's grid

\* what the calls on the single calculator are made with
CalcClinical == {<<80, 1, 1, 12, "W", 100>>, <<120, 2, 2, 12, "W", 50>>}
CalcThicknesses == {1, 2}

\* an edit of a driver's filter list: its kind and the thickness it added,
\* removed or set
Edit(kind, thickness) == [kind |-> kind, thickness |-> thickness]
NoEdit == Edit("none", 0)

\* the state before anything was called: a new calculator, no scenario
\* calculation, no configuration file
CalcStart ==
    /\ LET m == ESAKCalculator(<<>>, <<>>)
       IN  /\ calc = [spectrum |-> m.spectrum, parameters |-> m.parameters,
                      results |-> m.results]
           /\ lists = m.lists
           /\ dicts = m.dicts
    /\ returned = <<>>
    /\ consec = 0
    /\ ops = 0
    /\ other = None

RunsStart ==
    /\ run_last = None
    /\ run_edit = NoEdit

ExportStart ==
    /\ file = None
    /\ file_src = None
    /\ loaded = None
    /\ exported = None

\* an entry of st.session_state.filters
Filter(material, thickness) == [material |-> material, thickness |-> thickness]

\* a calculator as the session holds it: its spectrum and its parameters,
\* the filter list read through the reference
CalculatorView(m) ==
    [spectrum |-> m.spectrum,
     parameters |-> IF Has(m.parameters, "filters")
                    THEN Put(m.parameters, "filters", FiltersOf(m))
                    ELSE m.parameters]

\* what a script run that made no calculation leaves on the page
NothingShown(results) == [message |-> "none", results_displayed |-> results # None]

\* the session after its first script runs: the widgets at their defaults,
\* the exposure time and the thickness of the one filter entered as the
\* whole numbers 1 s and 2 mm, nothing calculated
AppStart ==
    /\ inputs = [kvp |-> 120, ma |-> 100, time_s |-> 1, anode_angle |-> 12,
                 ssd_cm |-> 100, enable_bsf |-> FALSE, field_size_cm |-> 10,
                 target_material |-> "W"]
    /\ session = [calculator |-> CalculatorView(ESAKCalculator(<<>>, <<>>)),
                  results |-> None,
                  calculation_history |-> <<>>,
                  filters |-> <<Filter("Al", 2)>>,
                  previous_filters |-> <<Filter("Al", 2)>>]
    /\ shown = NothingShown(None)
    /\ computed_from = None
    /\ now = 0

(***************************************************************************)
(* device_config.py: the registry of device configurations.  _devices is a *)
(* Python dict: a sequence of entries in insertion order, each a key and a *)
(* reference to a DeviceConfiguration object in device_objects.  The names *)
(* and the custom-input option are written with their Latin letters only.  *)
(***************************************************************************)
DeviceConfiguration(name, anode_angle, filter_material, filter_thickness, description) ==
    [name |-> name, anode_angle |-> anode_angle,
     filter_material |-> filter_material,
     filter_thickness |-> filter_thickness, description |-> description]

DeviceFields ==
    {"name", "anode_angle", "filter_material", "filter_thickness", "description"}

load_device_configurations ==
    << DeviceConfiguration("1,2: RAD speed Pro", Whole(16), "Al", Whole(3),
           "RAD speed Pro device for examination rooms 1 and 2"),
       DeviceConfiguration("3: RAD speed Pro", Whole(16), "Al", Whole(3),
           "RAD speed Pro device for examination room 3"),
       DeviceConfiguration("ALULA", <<25, 2>>, "Al", <<13, 5>>,
           "ALULA dental X-ray device"),
       DeviceConfiguration("Varian kV Imager", Whole(14), "Al", <<33, 10>>,
           "Varian kV imaging device") >>

CustomInputOption == "Other (custom input)"

\* the position of a key in the dict, 0 when it is not a key
KeyIndex(d, device_name) ==
    IF \E i \in 1..Len(d) : d[i].key = device_name
    THEN CHOOSE i \in 1..Len(d) : d[i].key = device_name
    ELSE 0

get_device_names(d) == [i \in 1..Len(d) |-> d[i].key]

\* the object registered under the name (its reference), or None
get_device_configuration(d, device_name) ==
    IF KeyIndex(d, device_name) = 0 THEN None ELSE Some(d[KeyIndex(d, device_name)].ref)

is_predefined_device(d, device_name) == KeyIndex(d, device_name) # 0

\* self._devices[device_config.name] = device_config
add_device(d, objects, ref) ==
    LET name == objects[ref].name
        at == KeyIndex(d, name)
    IN  IF at = 0
        THEN Append(d, [key |-> name, ref |-> ref])
        ELSE [d EXCEPT ![at].ref = ref]

\* setattr for every keyword that names an attribute of the object
SetAttributes(device, kwargs) ==
    [field \in DeviceFields |->
        IF Has(kwargs, field) THEN kwargs[field] ELSE device[field]]

\* faulty variant: an unknown name is registered with the given values
update_device_creating(d, objects, device_name, kwargs) ==
    LET at == KeyIndex(d, device_name)
    IN  IF at = 0
        THEN [devices |-> Append(d, [key |-> device_name, ref |-> Len(objects) + 1]),
              objects |-> Append(objects,
                              SetAttributes(DeviceConfiguration(device_name, Whole(0), "", Whole(0), ""),
                                            kwargs)),
              ret |-> FALSE]
        ELSE [devices |-> d,
              objects |-> [objects EXCEPT ![d[at].ref] = SetAttributes(@, kwargs)],
              ret |-> TRUE]

update_device(d, objects, device_name, kwargs) ==
    LET at == KeyIndex(d, device_name)
    IN  IF at = 0
        THEN [devices |-> d, objects |-> objects, ret |-> FALSE]
        ELSE [devices |-> d,
              objects |-> [objects EXCEPT ![d[at].ref] = SetAttributes(@, kwargs)],
              ret |-> TRUE]

remove_device(d, device_name) ==
    LET at == KeyIndex(d, device_name)
    IN  IF at # 0
        THEN [devices |-> SubSeq(d, 1, at - 1) \o SubSeq(d, at + 1, Len(d)),
              ret |-> TRUE]
        ELSE [devices |-> d, ret |-> FALSE]

\* faulty variant: nothing is appended when no device is registered
get_device_options_for_dropdown_bare(d) ==
    IF d = <<>> THEN <<>> ELSE get_device_names(d) \o <<CustomInputOption>>

get_device_options_for_dropdown(d) ==
    get_device_names(d) \o <<CustomInputOption>>

\* the global device_manager after the module was imported
DeviceStart ==
    /\ device_objects = load_device_configurations
    /\ devices = [i \in 1..Len(load_device_configurations) |->
                     [key |-> load_device_configurations[i].name, ref |-> i]]
    /\ device_ops = 0
    /\ device_call = None

(***************************************************************************)
(* metrics.py: get_metrics.  The spectrum engine is not part of the source *)
(* tree; a spectrum is written as what was asked of the engine (the tube   *)
(* potential and the filters applied, in order), and each scalar as the    *)
(* quantities it is computed from.  A dict of tissues is the sequence of   *)
(* its items.                                                              *)
(***************************************************************************)
\* numpy.arange for whole numbers: start, start + step, ... below stop
arange(start, stop, step) ==
    LET n == IF step > 0
             THEN Cardinality({j \in 0..(stop - start) : start + j * step < stop})
             ELSE 0
    IN  [j \in 1..n |-> start + (j - 1) * step]

zeros(n) == [j \in 1..n |-> 0]

\* faulty variant: the thickness of the last item alone
Thickness_last(bg) == IF bg = <<>> THEN 0 ELSE bg[Len(bg)][2]

\* the sum of the thicknesses of for item in bg.items()
RECURSIVE Thickness(_)
Thickness(bg) ==
    IF bg = <<>> THEN 0
    ELSE Thickness(SubSeq(bg, 1, Len(bg) - 1)) + bg[Len(bg)][2]

\* s.filter(item[0], item[1]*10) for every item of a tissue dict
FilterByTissues(s, tissues) ==
    [s EXCEPT !.filters = @ \o [j \in 1..Len(tissues) |-> <<tissues[j][1], tissues[j][2] * 10>>]]

\* one pass of the loop for tube potential kV: the four scalars
LoopBody(a, SSD, kV) ==
    LET s == [kvp |-> kV, th |-> 12, physics |-> a.physics,
              filters |-> <<<<"Al", <<7, 2>>>>, <<"Cu", <<1, 10>>>>, <<"Air", SSD * 10>>>>]
        sb == FilterByTissues(s, a.bg)
        ss == FilterByTissues(s, a.sg)
        sigb == [spectrum |-> sb, z |-> a.SDD, detector |-> a.detector, moment |-> 1]
        sigs == [spectrum |-> ss, z |-> a.SDD, detector |-> a.detector, moment |-> 1]
        varb == [spectrum |-> sb, z |-> a.SDD, detector |-> a.detector, moment |-> 2]
        contrast == [sigb |-> sigb, sigs |-> sigs]
        cnr == [contrast |-> contrast, sigb |-> sigb, varb |-> varb]
        ki == [spectrum |-> s, z |-> SSD]
    IN  [contrast |-> contrast, cnr |-> cnr, ki |-> ki,
         cnrd |-> [cnr |-> cnr, ki |-> ki]]

\* no get_metrics call in progress
MetricsStart ==
    /\ frame = None
    /\ spek_log = <<>>

(***************************************************************************)
(* One calculator driven through its public methods in any order.          *)
(***************************************************************************)
Cur == Machine(calc, lists, dicts)

Commit(m) ==
    /\ calc' = [spectrum |-> m.spectrum, parameters |-> m.parameters,
                results |-> m.results]
    /\ lists' = m.lists
    /\ dicts' = m.dicts

\* one more method call; the environment does not change
Step ==
    /\ ops < MaxOps
    /\ ops' = ops + 1
    /\ UNCHANGED <<sp_available, bsf_file, other>>
    /\ UNCHANGED <<runVars, exportVars, appVars, deviceVars, metricsVars>>

InitCalc ==
    /\ sp_available \in BOOLEAN
    /\ bsf_file \in BOOLEAN
    /\ CalcStart
    /\ RunsStart
    /\ ExportStart
    /\ AppStart
    /\ DeviceStart
    /\ MetricsStart

SetClinicalParameters ==
    \E c \in CalcClinical :
        /\ Step
        /\ Commit(set_clinical_parameters(Cur, c[1], c[2], c[3], c[4], c[5], c[6]))
        /\ consec' = 0
        /\ UNCHANGED returned

AddFiltration ==
    \E material \in FilterMaterials, t \in CalcThicknesses :
        /\ Step
        /\ Len(FiltersOf(Cur)) < MaxFilters
        /\ Commit(add_filtration(Cur, material, t))
        /\ consec' = 0
        /\ UNCHANGED returned

SetFieldParameters ==
    \E f \in FieldSizes :
        /\ Step
        /\ Commit(set_field_parameters(Cur, f, "water"))
        /\ consec' = 0
        /\ UNCHANGED returned

GenerateSpectrum ==
    /\ Step
    /\ Commit(generate_spectrum(Cur).m)
    /\ consec' = 0
    /\ UNCHANGED returned

CalculateEsak ==
    /\ Step
    /\ Commit(calculate_esak(Cur).m)
    /\ consec' = 0
    /\ UNCHANGED returned

CalculateBsf ==
    /\ Step
    /\ Commit(calculate_bsf(Cur).m)
    /\ consec' = 0
    /\ UNCHANGED returned

CalculateBeamQualityParameters ==
    /\ Step
    /\ Commit(calculate_beam_quality_parameters(Cur).m)
    /\ consec' = 0
    /\ UNCHANGED returned

CalculateEsakWithBsf ==
    /\ Step
    /\ Commit(calculate_esak_with_bsf(Cur).m)
    /\ consec' = 0
    /\ UNCHANGED returned

\* the caller keeps the returned dict (ref) and what it held on return (snap)
CalculateAllMetrics ==
    /\ Step
    /\ LET r == calculate_all_metrics(Cur)
       IN  /\ Commit(r.m)
           /\ returned' = Append(returned, [ref |-> r.ret, snap |-> View(r.m, r.ret)])
    /\ consec' = consec + 1

\* the summary goes to the caller; the calculator keeps what
\* calculate_all_metrics did when get_summary_text had to call it
GetSummaryText ==
    /\ Step
    /\ Commit(get_summary_text(Cur).m)
    /\ consec' = 0
    /\ UNCHANGED returned

NextCalc ==
    \/ SetClinicalParameters
    \/ AddFiltration
    \/ SetFieldParameters
    \/ GenerateSpectrum
    \/ CalculateEsak
    \/ CalculateBsf
    \/ CalculateBeamQualityParameters
    \/ CalculateEsakWithBsf
    \/ CalculateAllMetrics
    \/ GetSummaryText

SpecCalc == InitCalc /\ [][NextCalc]_vars

(***************************************************************************)
(* Properties of the single calculator.                                    *)
(***************************************************************************)
\* the record a fresh calculator holding the same parameters returns
FreshRecord ==
    LET f == [ESAKCalculator(lists, dicts) EXCEPT !.parameters = calc.parameters]
        r == calculate_all_metrics(f)
    IN  View(r.m, r.ret)

\* C6: calculate_all_metrics called twice in a row on one calculator returns
\* equal records, and that record is the one a fresh calculator with the same
\* parameters returns, also when the engine rejects a filter.
C6_Idempotent ==
    consec >= 2 =>
        LET n == Len(returned)
        IN  /\ returned[n].snap = returned[n - 1].snap
            /\ returned[n].snap = FreshRecord

\* C9: in every record calculate_all_metrics returned, esak_with_bsf_mgy is
\* esak_mgy times bsf when the parameters hold field_size_cm; without it bsf
\* is 1.0 and there is no esak_with_bsf_mgy.
C9_EsakTimesBsf ==
    \A i \in 1..Len(returned) :
        LET r == returned[i].snap
        IN  IF Has(r["parameters"], "field_size_cm")
            THEN /\ Has(r, "esak_with_bsf_mgy")
                 /\ r["esak_with_bsf_mgy"] = RMul(r["esak_mgy"], r["bsf"])
            ELSE /\ r["bsf"] = Whole(1)
                 /\ ~Has(r, "esak_with_bsf_mgy")

\* the keys calculate_esak and calculate_beam_quality_parameters store
EsakKeys == {"esak_mgy", "kerma_per_mas_ugy", "distance_correction"}

BeamQualityKeys ==
    {"hvl1_al_mm", "hvl2_al_mm", "hvl1_cu_mm", "mean_energy_kev",
     "effective_energy_kev", "total_fluence", "energy_fluence_kev",
     "homogeneity_coefficient"}

\* C10: a record returned by a calculation that succeeded (it carries the
\* beam-quality values) holds esak_mgy, kerma_per_mas_ugy and
\* distance_correction, the eight beam-quality values, bsf and the parameters.
C10_RecordComplete ==
    \A i \in 1..Len(returned) :
        LET r == returned[i].snap
        IN  Has(r, "hvl1_al_mm") =>
                EsakKeys \cup BeamQualityKeys \cup {"bsf", "parameters"}
                    \subseteq DOMAIN r

\* C11: a calculate_esak call that finds or generates a spectrum returns
\* kerma_per_mAs x (ma x time_s) x (100 / ssd_cm)^2 / 1000, stores that value
\* as esak_mgy, the engine's kerma as kerma_per_mas_ugy and (100 / ssd_cm)^2
\* as distance_correction, which is 1 at ssd_cm = 100.
C11_EsakFormula ==
    [][(CalculateEsak /\ EnsureSpectrum(Cur).ret) =>
        LET p == calc.parameters
            stored == dicts'[calc'.results]
            kerma_per_mas == get_kerma(calc'.spectrum[1])
            squared == Norm(100 * 100, p["ssd_cm"] * p["ssd_cm"])
            expected == RDiv(RMul(RMul(kerma_per_mas, Whole(p["ma"] * p["time_s"])),
                                  squared),
                             Whole(1000))
        IN  /\ calculate_esak(Cur).ret = expected
            /\ stored["esak_mgy"] = expected
            /\ stored["kerma_per_mas_ugy"] = kerma_per_mas
            /\ stored["distance_correction"] = squared
            /\ p["ssd_cm"] = 100 => stored["distance_correction"] = Whole(1)]_vars

\* calculate_esak has computed at 50 cm from 2 mA x 2 s
C11_Witness ==
    /\ Has(dicts[calc.results], "distance_correction")
    /\ dicts[calc.results]["distance_correction"] = Whole(4)
    /\ Get(calc.parameters, "mas", 0) = 4
    /\ dicts[calc.results]["esak_mgy"][1] > 0

\* create_report_template(results), called without spectrum arrays: the
\* values the report shows, or None when it raises.  Every key below is
\* written as f"{results.get(key, 'N/A'):.Nf}", which raises ValueError for
\* the string 'N/A'; bsf has the default 1.0 when no field size is echoed.
\* A number is shown rounded to N decimals, as a count of 10^-N.
create_report_template(results) ==
    LET has_bsf == Has(Get(results, "parameters", EmptyDict), "field_size_cm")
        scale == [esak_mgy |-> 1000, bsf |-> 1000, esak_with_bsf_mgy |-> 1000,
                  kerma_per_mas_ugy |-> 100, hvl1_al_mm |-> 100,
                  hvl2_al_mm |-> 100, hvl1_cu_mm |-> 1000,
                  mean_energy_kev |-> 10, effective_energy_kev |-> 10,
                  homogeneity_coefficient |-> 1000]
        shown_keys == IF has_bsf THEN DOMAIN scale
                      ELSE DOMAIN scale \ {"esak_with_bsf_mgy"}
        value(k) == IF k = "bsf" /\ ~has_bsf THEN Get(results, k, Whole(1))
                    ELSE Get(results, k, <<"N/A">>)
        rounded(v, n) == (2 * n * v[1] + v[2]) \div (2 * v[2])
    IN  IF \E k \in shown_keys : Len(value(k)) = 1      \* the string
        THEN None
        ELSE Some([k \in shown_keys |-> rounded(value(k), scale[k])])

\* C13: create_report_template returns a report, without raising, for every
\* record calculate_all_metrics returned.
C13_ReportProduced ==
    \A i \in 1..Len(returned) : create_report_template(returned[i].snap) # None

(***************************************************************************)
(* calculate_bsf on its own, called on calculators that were set up with   *)
(* or without a filter, a field size and a generated spectrum.  One filter *)
(* is thick enough to leave no fluence in any bin.                         *)
(***************************************************************************)
BsfCalculators ==
    {LET c == x.clinical
         m1 == set_clinical_parameters(ESAKCalculator(<<>>, <<>>),
                                       c[1], c[2], c[3], c[4], c[5], c[6])
         m2 == IF x.filter = None THEN m1
               ELSE add_filtration(m1, x.filter[1][1], x.filter[1][2])
         m3 == IF x.field = None THEN m2
               ELSE set_field_parameters(m2, x.field[1], "water")
     IN  IF x.generated THEN generate_spectrum(m3).m ELSE m3
     : x \in [clinical : CalcClinical,
              filter : {None, Some(<<"Al", 1>>), Some(<<"Al", 1076>>),
                        Some(<<"Xx", 1>>)},
              field : {None} \cup {Some(f) : f \in FieldSizes},
              generated : BOOLEAN]}

InitBsf ==
    /\ sp_available \in BOOLEAN
    /\ bsf_file \in BOOLEAN
    /\ \E m \in BsfCalculators :
           /\ calc = [spectrum |-> m.spectrum, parameters |-> m.parameters,
                      results |-> m.results]
           /\ lists = m.lists
           /\ dicts = m.dicts
    /\ returned = <<>>
    /\ consec = 0
    /\ ops = 0
    /\ other = None
    /\ RunsStart
    /\ ExportStart
    /\ AppStart
    /\ DeviceStart
    /\ MetricsStart

SpecBsf == InitBsf /\ [][CalculateBsf]_vars

\* the sum of k * phi_k * muen_over_rho over the bins of spectrum sp
WeightSum(sp) ==
    LET sd == get_spectrum(sp)
    IN  RAdd(RMul(Whole(sd.k[1] * MuenAir[1]), sd.phi_k[1]),
             RMul(Whole(sd.k[2] * MuenAir[2]), sd.phi_k[2]))

\* the path a calculate_bsf call takes, told from the states before and
\* after it: an early return (the library is missing, the spectrum cannot be
\* generated, the data file is not found), a weight sum that is not
\* positive, query points that all lie outside the grid, or interpolation
BsfPath ==
    IF ~sp_available \/ ~EnsureSpectrum(Cur).ret \/ ~bsf_file THEN "early return"
    ELSE IF WeightSum(calc'.spectrum[1]) = Whole(0) THEN "no weight"
    ELSE IF \A b \in 1..Len(EBins) :
                ~(/\ InAxis(SSD_data, Get(calc.parameters, "ssd_cm", 100))
                  /\ InAxis(K_data, EBins[b])
                  /\ InAxis(D_data, Get(calc.parameters, "field_size_cm", 10)))
         THEN "out of grid"
    ELSE "interpolated"

\* C12 as stated: a query outside the grid yields 1.0, and every failure
\* path of calculate_bsf, a non-positive weight sum among them, returns 1.0
\* without writing results['bsf'].
C12_NeutralDefault ==
    [][CalculateBsf =>
        /\ BsfPath = "out of grid" => calculate_bsf(Cur).ret = Whole(1)
        /\ BsfPath \in {"early return", "no weight"} =>
               /\ calculate_bsf(Cur).ret = Whole(1)
               /\ dicts'[calc'.results] = dicts[calc.results]]_vars

\* C12, amended: a query outside the grid yields 1.0; the failure paths
\* (library missing, spectrum not generated, data file not found) return 1.0
\* without writing results['bsf']; a non-positive weight sum returns 1.0 and
\* writes results['bsf'] = 1.0.
C12_NeutralDefaultAmended ==
    [][CalculateBsf =>
        /\ BsfPath = "out of grid" => calculate_bsf(Cur).ret = Whole(1)
        /\ BsfPath = "early return" =>
               /\ calculate_bsf(Cur).ret = Whole(1)
               /\ dicts'[calc'.results] = dicts[calc.results]
        /\ BsfPath = "no weight" =>
               /\ calculate_bsf(Cur).ret = Whole(1)
               /\ dicts'[calc'.results] = Put(dicts[calc.results], "bsf", Whole(1))]_vars

\* calculate_bsf was called on a beam without fluence and wrote bsf = 1.0
C12_Witness ==
    /\ ops > 0
    /\ calc.spectrum # None
    /\ WeightSum(calc.spectrum[1]) = Whole(0)
    /\ Get(dicts[calc.results], "bsf", Whole(0)) = Whole(1)

(***************************************************************************)
(* Two calculators side by side: calc is the instance the caller works on, *)
(* other the instance it has put aside; the caller may turn to the other   *)
(* instance between any two calls.                                         *)
(***************************************************************************)
MaxPairCalls == 4       \* method calls made on the two instances together

InitPair ==
    /\ sp_available = TRUE
    /\ bsf_file = TRUE
    /\ LET m1 == ESAKCalculator(<<>>, <<>>)
           m2 == ESAKCalculator(m1.lists, m1.dicts)
       IN  /\ calc = [spectrum |-> m1.spectrum, parameters |-> m1.parameters,
                      results |-> m1.results]
           /\ other = Some([spectrum |-> m2.spectrum, parameters |-> m2.parameters,
                            results |-> m2.results])
           /\ lists = m2.lists
           /\ dicts = m2.dicts
    /\ returned = <<>>
    /\ consec = 0
    /\ ops = 0
    /\ RunsStart
    /\ ExportStart
    /\ AppStart
    /\ DeviceStart
    /\ MetricsStart

\* any method is called on calc
PairCall ==
    /\ ops < MaxPairCalls
    /\ \E m \in {set_clinical_parameters(Cur, 80, 1, 1, 12, "W", 100),
                  add_filtration(Cur, "Al", 1),
                  set_field_parameters(Cur, 10, "water"),
                  generate_spectrum(Cur).m,
                  calculate_esak(Cur).m,
                  calculate_bsf(Cur).m,
                  calculate_beam_quality_parameters(Cur).m,
                  calculate_esak_with_bsf(Cur).m,
                  calculate_all_metrics(Cur).m,
                  get_summary_text(Cur).m} :
           Commit(m)
    /\ ops' = ops + 1
    /\ UNCHANGED <<sp_available, bsf_file, returned, consec, other>>
    /\ UNCHANGED <<runVars, exportVars, appVars, deviceVars, metricsVars>>

\* the caller turns to the other instance
PairSwitch ==
    /\ calc' = other[1]
    /\ other' = Some(calc)
    /\ UNCHANGED <<sp_available, bsf_file, lists, dicts, returned, consec, ops>>
    /\ UNCHANGED <<runVars, exportVars, appVars, deviceVars, metricsVars>>

SpecPair == InitPair /\ [][PairCall \/ PairSwitch]_vars

\* what the instance put aside holds: its spectrum, its parameters with the
\* filter list, its results
OtherView ==
    LET m == Machine(other[1], lists, dicts)
    IN  [calculator |-> CalculatorView(m), results |-> View(m, m.results)]

\* C14: no call on one calculator changes the spectrum, the parameters, the
\* filter list or the results of the other, in any interleaving of calls on
\* the two.
C14_Isolated == [][PairCall => OtherView' = OtherView]_vars

\* one instance has computed while the other holds a filter list
C14_Witness ==
    /\ other # None
    /\ Has(dicts[calc.results], "esak_mgy")
    /\ Has(OtherView.calculator.parameters, "filters")
    /\ ~Has(calc.parameters, "filters")

\* C18: whatever was called before, calculate_esak and calculate_all_metrics
\* use a spectrum built from the calculator's current kvp, anode angle and
\* complete current filter list (stated where such a spectrum can be built:
\* the engine is there, the clinical parameters are set and the engine knows
\* every filter material).
C18_ChangesTakeEffect ==
    [][((CalculateEsak \/ CalculateAllMetrics)
            /\ sp_available
            /\ Has(calc.parameters, "kvp")
            /\ \A i \in 1..Len(FiltersOf(Cur)) :
                    ~FilterRaises(FiltersOf(Cur)[i].material, FiltersOf(Cur)[i].thickness_mm))
        => calc'.spectrum =
              Some(ApplyFilters(Spek(calc.parameters["kvp"], calc.parameters["anode_angle"]),
                                FiltersOf(Cur), Len(FiltersOf(Cur))))]_vars

\* C20: when generate_spectrum returns False, self.spectrum is as it was
\* before the call.
C20_NoSpectrumFromFailure ==
    [][(GenerateSpectrum /\ ~generate_spectrum(Cur).ret)
        => calc'.spectrum = calc.spectrum]_vars

\* C16: get_summary_text never raises and returns a non-empty summary in
\* every calculator state: the summary holds the clinical-parameter section,
\* each of its six values the parameter held or N/A when there is none, and
\* the filtration section, the filters held in their order or "None
\* specified" when there is no filter list.
C16_SummaryAlways ==
    [][GetSummaryText =>
        LET text == get_summary_text(Cur).ret
            p == calc.parameters
            fl == FiltersOf(Cur)
            keys == <<"kvp", "ma", "time_s", "mas", "anode_angle", "ssd_cm">>
        IN  /\ text # None
            /\ Len(text) > 0
            /\ text[3] = <<"Clinical Parameters:">>
            /\ \A i \in 1..6 :
                text[3 + i][2] = IF Has(p, keys[i]) THEN p[keys[i]] ELSE "N/A"
            /\ text[11] = <<"Filtration:">>
            /\ IF Has(p, "filters")
               THEN \A i \in 1..Len(fl) :
                        /\ text[11 + i][2] = fl[i].material
                        /\ text[11 + i][4] = fl[i].thickness_mm
               ELSE text[12] = <<"  None specified">>]_vars

\* get_summary_text was the first call on a new calculator: it ran
\* calculate_all_metrics itself, which left a record without the kerma per
\* mAs and without beam quality values, and no record went to the caller
C16_Witness ==
    /\ ops = 1
    /\ returned = <<>>
    /\ calc.parameters = EmptyDict
    /\ Has(dicts[calc.results], "esak_mgy")
    /\ ~Has(dicts[calc.results], "kerma_per_mas_ugy")
    /\ ~Has(dicts[calc.results], "hvl1_al_mm")

\* C21: the parameters echoed in a record calculate_all_metrics returned are
\* a snapshot: whatever is called on the calculator afterwards, the record
\* the caller holds shows the parameters it showed when it was returned.
C21_EchoIsSnapshot ==
    \A i \in 1..Len(returned) :
        View(Cur, returned[i].ref)["parameters"] = returned[i].snap["parameters"]

\* C23: after set_clinical_parameters the parameters hold exactly kvp, ma,
\* time_s, mas, anode_angle, target_material and ssd_cm, so filters and
\* field parameters set earlier are gone; the spectrum and the results
\* dictionary are as they were.
C23_ParametersReplaced ==
    [][SetClinicalParameters =>
        /\ DOMAIN calc'.parameters =
              {"kvp", "ma", "time_s", "mas", "anode_angle", "target_material", "ssd_cm"}
        /\ calc'.spectrum = calc.spectrum
        /\ calc'.results = calc.results
        /\ dicts' = dicts]_vars

\* set_clinical_parameters was called on a calculator that held a filter and
\* a spectrum generated with it: the spectrum is still the filtered one and
\* the parameters have no filter list
C23_Witness ==
    /\ calc.spectrum # None
    /\ calc.spectrum[1].mut # <<0, 0>>
    /\ Has(calc.parameters, "kvp")
    /\ ~Has(calc.parameters, "filters")

(***************************************************************************)
(* calculate_esak on its own, called on calculators whose distance may be  *)
(* 0, with or without a filter, a generated spectrum and beam quality      *)
(* values in the results.                                                  *)
(***************************************************************************)
InitEsak ==
    /\ sp_available \in BOOLEAN
    /\ bsf_file = TRUE
    /\ \E x \in [clinical : CalcClinical \cup {<<80, 1, 1, 12, "W", 0>>},
                 filter : {None, Some(<<"Al", 1>>), Some(<<"Xx", 1>>)},
                 prepared : {"new", "generated", "measured"}] :
           LET c == x.clinical
               m1 == set_clinical_parameters(ESAKCalculator(<<>>, <<>>),
                                             c[1], c[2], c[3], c[4], c[5], c[6])
               m2 == IF x.filter = None THEN m1
                     ELSE add_filtration(m1, x.filter[1][1], x.filter[1][2])
               m == CASE x.prepared = "new" -> m2
                      [] x.prepared = "generated" -> generate_spectrum(m2).m
                      [] x.prepared = "measured" ->
                            calculate_beam_quality_parameters(m2).m
           IN  /\ calc = [spectrum |-> m.spectrum, parameters |-> m.parameters,
                          results |-> m.results]
               /\ lists = m.lists
               /\ dicts = m.dicts
    /\ returned = <<>>
    /\ consec = 0
    /\ ops = 0
    /\ other = None
    /\ RunsStart
    /\ ExportStart
    /\ AppStart
    /\ DeviceStart
    /\ MetricsStart

SpecEsak == InitEsak /\ [][CalculateEsak]_vars

\* C22: a calculate_esak call in which spectrum generation fails or the
\* computation throws (ssd_cm is 0 or there is no mas) returns 0.0 and
\* leaves the results dictionary exactly as it was.
C22_FailureLeavesResults ==
    [][(CalculateEsak
            /\ \/ calc.spectrum = None /\ ~generate_spectrum(Cur).ret
               \/ ~Has(calc.parameters, "mas")
               \/ Get(calc.parameters, "ssd_cm", 0) = 0)
        => /\ calculate_esak(Cur).ret = Whole(0)
           /\ calc'.results = calc.results
           /\ dicts' = dicts]_vars

\* calculate_esak was called with a spectrum at hand and a distance of 0,
\* beam quality values being in the results
C22_Witness ==
    /\ ops > 0
    /\ calc.spectrum # None
    /\ Get(calc.parameters, "ssd_cm", 100) = 0
    /\ Has(dicts[calc.results], "hvl1_al_mm")
    /\ ~Has(dicts[calc.results], "esak_mgy")

(***************************************************************************)
(* Filter scenarios: a driver keeps a filter list, edits it and, after     *)
(* every edit, computes on a fresh calculator (perform_calculation of the  *)
(* web app, which skips entries whose thickness is not greater than 0, and *)
(* the test drivers, which also pass every entry to add_filtration).       *)
(***************************************************************************)
RunMaterials == {"Al", "Be"}
RunThicknesses == 0..MaxTotalThickness

\* "for filter_config in filters: [if filter_config['thickness'] > 0:]
\*      calculator.add_filtration(...)", after the first n entries
RECURSIVE AddFilters(_, _, _, _)
AddFilters(m, fl, n, skip_zero) ==
    IF n = 0 THEN m
    ELSE LET before == AddFilters(m, fl, n - 1, skip_zero)
         IN  IF skip_zero /\ ~(fl[n].thickness > 0) THEN before
             ELSE add_filtration(before, fl[n].material, fl[n].thickness)

\* a new calculator, its parameters and filters set, and what
\* calculate_all_metrics returns
NewCalculation(c, fl, skip_zero) ==
    LET m0 == ESAKCalculator(<<>>, <<>>)
        m1 == set_clinical_parameters(m0, c[1], c[2], c[3], c[4], c[5], c[6])
        m2 == AddFilters(m1, fl, Len(fl), skip_zero)
        r == calculate_all_metrics(m2)
    IN  View(r.m, r.ret)

Run(c, fl, skip_zero) ==
    [clinical |-> c, filters |-> fl, skip_zero |-> skip_zero,
     results |-> NewCalculation(c, fl, skip_zero)]

RECURSIVE TotalThickness(_)
TotalThickness(fl) ==
    IF fl = <<>> THEN 0 ELSE Head(fl).thickness + TotalThickness(Tail(fl))

\* faulty variant: the last entry goes, whichever index is given
Pop_last(fl, i) == SubSeq(fl, 1, Len(fl) - 1)

\* list operations of the drivers: filters.pop(i), filters[i] = ..., and an
\* entry replaced by two
Pop(fl, i) == SubSeq(fl, 1, i - 1) \o SubSeq(fl, i + 1, Len(fl))

SplitAt(fl, i, t1) ==
    SubSeq(fl, 1, i - 1)
        \o <<[material |-> fl[i].material, thickness |-> t1],
             [material |-> fl[i].material, thickness |-> fl[i].thickness - t1]>>
        \o SubSeq(fl, i + 1, Len(fl))

\* the driver's list after the edit is calculated on a new calculator
Recalculate(edit, c, fl, skip_zero) ==
    /\ TotalThickness(fl) <= MaxTotalThickness
    /\ run_last' = Some(Run(c, fl, skip_zero))
    /\ run_edit' = edit
    /\ UNCHANGED <<sp_available, bsf_file>>
    /\ UNCHANGED <<calcVars, exportVars, appVars, deviceVars, metricsVars>>

\* no field size is set in these scenarios: the table file is never looked for
InitRuns ==
    /\ sp_available \in BOOLEAN
    /\ bsf_file = TRUE
    /\ CalcStart
    /\ RunsStart
    /\ ExportStart
    /\ AppStart
    /\ DeviceStart
    /\ MetricsStart

\* the driver starts: the web app (skip_zero) or a test driver
RunFirst ==
    /\ run_last = None
    /\ \E c \in CalcClinical, skip_zero \in BOOLEAN :
           Recalculate(Edit("first", 0), c, <<>>, skip_zero)

RunAddFilter ==
    /\ run_last # None
    /\ Len(run_last[1].filters) < MaxFilters
    /\ \E material \in RunMaterials, t \in RunThicknesses :
           Recalculate(Edit("add", t), run_last[1].clinical,
                       Append(run_last[1].filters,
                              [material |-> material, thickness |-> t]),
                       run_last[1].skip_zero)

RunRemoveFilter ==
    /\ run_last # None
    /\ \E i \in 1..Len(run_last[1].filters) :
           Recalculate(Edit("remove", run_last[1].filters[i].thickness),
                       run_last[1].clinical,
                       Pop(run_last[1].filters, i), run_last[1].skip_zero)

RunSetThickness ==
    /\ run_last # None
    /\ \E i \in 1..Len(run_last[1].filters), t \in RunThicknesses :
           /\ t # run_last[1].filters[i].thickness
           /\ Recalculate(Edit("thickness", t), run_last[1].clinical,
                          [run_last[1].filters EXCEPT ![i].thickness = t],
                          run_last[1].skip_zero)

RunSplitFilter ==
    /\ run_last # None
    /\ Len(run_last[1].filters) < MaxFilters
    /\ \E i \in 1..Len(run_last[1].filters) :
           \E t1 \in 1..(run_last[1].filters[i].thickness - 1) :
               Recalculate(Edit("split", t1), run_last[1].clinical,
                           SplitAt(run_last[1].filters, i, t1),
                           run_last[1].skip_zero)

RunSetClinical ==
    /\ run_last # None
    /\ \E c \in CalcClinical :
           /\ c # run_last[1].clinical
           /\ Recalculate(Edit("clinical", 0), c, run_last[1].filters,
                          run_last[1].skip_zero)

NextRuns ==
    \/ RunFirst
    \/ RunAddFilter
    \/ RunRemoveFilter
    \/ RunSetThickness
    \/ RunSplitFilter
    \/ RunSetClinical

SpecRuns == InitRuns /\ [][NextRuns]_vars

(***************************************************************************)
(* Properties of the filter scenarios.  They compare the calculation made  *)
(* before an edit (run_last) with the one made after it (run_last').       *)
(***************************************************************************)
\* the values the test drivers read: result.get('esak_mgy', 0) and
\* result.get('hvl1_al_mm', 0)
EsakOf(run) == Get(run.results, "esak_mgy", Whole(0))
HvlOf(run) == Get(run.results, "hvl1_al_mm", Whole(0))

\* l2 is l1 with one entry made thicker
Thicker(l1, l2) ==
    /\ Len(l2) = Len(l1)
    /\ \E i \in 1..Len(l1) :
           /\ l2[i].material = l1[i].material
           /\ l2[i].thickness > l1[i].thickness
           /\ \A j \in 1..Len(l1) : j # i => l2[j] = l1[j]

\* l2 is l1 with one more entry, of positive thickness
OneMore(l1, l2) ==
    /\ Len(l2) = Len(l1) + 1
    /\ \E i \in 1..Len(l2) : l2[i].thickness > 0 /\ Pop(l2, i) = l1

\* l2 is l1 with one more entry, of thickness 0
ZeroEntryMore(l1, l2) ==
    /\ Len(l2) = Len(l1) + 1
    /\ \E i \in 1..Len(l2) : l2[i].thickness = 0 /\ Pop(l2, i) = l1

\* l2 is l1 with one entry replaced by two of the same material and the same
\* summed thickness
SplitInTwo(l1, l2) ==
    \E i \in 1..Len(l1) : \E t1 \in 0..l1[i].thickness : l2 = SplitAt(l1, i, t1)

\* both calculations were made, for the same clinical parameters
SameClinical ==
    /\ run_last # None
    /\ run_last' # None
    /\ run_last'[1].clinical = run_last[1].clinical

\* a record without the parameters it echoes
Values(results) == [k \in DOMAIN results \ {"parameters"} |-> results[k]]

\* C1: with the engine available and the same tube potential, mAs and SSD,
\* more filtration (one entry thicker, or one more entry of positive
\* thickness) gives a strictly lower esak_mgy and a strictly higher hvl1_al_mm.
C1_MoreFiltration ==
    [][(/\ sp_available
        /\ SameClinical
        /\ \/ Thicker(run_last[1].filters, run_last'[1].filters)
           \/ OneMore(run_last[1].filters, run_last'[1].filters))
       => /\ RLess(EsakOf(run_last'[1]), EsakOf(run_last[1]))
          /\ RLess(HvlOf(run_last[1]), HvlOf(run_last'[1]))]_vars

\* a filter of positive thickness was added to a list that had one, and the
\* engine computed the record
C1_Witness ==
    /\ sp_available
    /\ run_edit.kind = "add"
    /\ run_edit.thickness > 0
    /\ Len(run_last[1].filters) = 2
    /\ run_last[1].filters[1].thickness > 0
    /\ Has(run_last[1].results, "hvl1_al_mm")
    /\ RLess(Whole(0), EsakOf(run_last[1]))

\* C2: removing a filter (of positive thickness, the engine available, the
\* clinical parameters unchanged) gives a strictly higher esak_mgy and a
\* strictly lower hvl1_al_mm than with the filter present.
C2_RemoveReverses ==
    [][(/\ sp_available
        /\ SameClinical
        /\ OneMore(run_last'[1].filters, run_last[1].filters))
       => /\ RLess(EsakOf(run_last[1]), EsakOf(run_last'[1]))
          /\ RLess(HvlOf(run_last'[1]), HvlOf(run_last[1]))]_vars

\* a filter of positive thickness was removed, another one stays, and the
\* engine computed the record
C2_Witness ==
    /\ sp_available
    /\ run_edit.kind = "remove"
    /\ run_edit.thickness > 0
    /\ Len(run_last[1].filters) = 1
    /\ run_last[1].filters[1].thickness > 0
    /\ Has(run_last[1].results, "hvl1_al_mm")

\* C3: two entries of one material with thicknesses t1 and t2 give the same
\* esak_mgy and hvl1_al_mm as one entry of thickness t1 + t2, for the same
\* clinical parameters.
C3_SplitEqual ==
    [][(/\ SameClinical
        /\ SplitInTwo(run_last[1].filters, run_last'[1].filters))
       => /\ EsakOf(run_last'[1]) = EsakOf(run_last[1])
          /\ HvlOf(run_last'[1]) = HvlOf(run_last[1])]_vars

\* an entry was split in two unequal parts and the engine computed the record
C3_Witness ==
    /\ sp_available
    /\ run_edit.kind = "split"
    /\ Len(run_last[1].filters) = 2
    /\ run_last[1].filters[1].material = run_last[1].filters[2].material
    /\ run_last[1].filters[1].thickness # run_last[1].filters[2].thickness
    /\ Has(run_last[1].results, "hvl1_al_mm")
    /\ RLess(Whole(0), EsakOf(run_last[1]))

\* C4: one more entry of thickness 0 leaves every computed value of the
\* record as it was, whether the entry reaches add_filtration or is skipped
\* by the web app; skipped, it leaves the whole record as it was.
C4_ZeroThickness ==
    [][(/\ SameClinical
        /\ ZeroEntryMore(run_last[1].filters, run_last'[1].filters))
       => /\ Values(run_last'[1].results) = Values(run_last[1].results)
          /\ run_last'[1].skip_zero
                => run_last'[1].results = run_last[1].results]_vars

\* an entry of thickness 0 was added after one of positive thickness, reached
\* add_filtration and is echoed in the record the engine computed
C4_Witness ==
    /\ sp_available
    /\ run_edit.kind = "add"
    /\ run_edit.thickness = 0
    /\ ~run_last[1].skip_zero
    /\ Len(run_last[1].filters) = 2
    /\ run_last[1].filters[1].thickness > 0
    /\ Len(run_last[1].results["parameters"]["filters"]) = 2
    /\ Has(run_last[1].results, "hvl1_al_mm")

(***************************************************************************)
(* DataExporter.export_configuration and load_configuration.  A file is    *)
(* the sequence of JSON tokens json.dump writes: <<"{">>, <<"}">>,         *)
(* <<"[">>, <<"]">>, <<":">>, <<",">>, a key <<"key", name>>, a number     *)
(* <<"num", decimal digits>> and a string <<"str", escaped pieces>>.       *)
(***************************************************************************)
\* a string as the pieces the encoder looks at: runs of plain text and the
\* characters JSON escapes
Pieces(s) == IF s = "Al\"" THEN <<"Al", "\"">> ELSE <<s>>
Joined(ps) == IF ps = <<"Al", "\"">> THEN "Al\"" ELSE ps[1]

Escaped == {"\"", "\\"}

RECURSIVE Escape(_)
Escape(ps) ==
    IF ps = <<>> THEN <<>>
    ELSE (IF Head(ps) \in Escaped THEN <<"\\", Head(ps)>> ELSE <<Head(ps)>>)
             \o Escape(Tail(ps))

RECURSIVE Unescape(_)
Unescape(es) ==
    IF es = <<>> THEN <<>>
    ELSE IF Head(es) = "\\" THEN <<es[2]>> \o Unescape(Tail(Tail(es)))
    ELSE <<Head(es)>> \o Unescape(Tail(es))

RECURSIVE Digits(_)
Digits(n) == IF n < 10 THEN <<n>> ELSE Append(Digits(n \div 10), n % 10)

RECURSIVE Number(_)
Number(ds) ==
    IF Len(ds) = 1 THEN ds[1]
    ELSE 10 * Number(SubSeq(ds, 1, Len(ds) - 1)) + ds[Len(ds)]

DumpNumber(n) == <<<<"num", Digits(n)>>>>
DumpString(s) == <<<<"str", Escape(Pieces(s))>>>>
Member(key, value) == <<<<"key", key>>, <<":">>>> \o value

\* the items of a list or the members of an object, with commas between
RECURSIVE Commas(_)
Commas(items) ==
    IF items = <<>> THEN <<>>
    ELSE IF Len(items) = 1 THEN items[1]
    ELSE items[1] \o <<<<",">>>> \o Commas(Tail(items))

DumpObject(members) == <<<<"{">>>> \o Commas(members) \o <<<<"}">>>>
DumpList(items) == <<<<"[">>>> \o Commas(items) \o <<<<"]">>>>

DumpFilter(f) ==
    DumpObject(<<Member("material", DumpString(f.material)),
                 Member("thickness_mm", DumpNumber(f.thickness_mm))>>)

\* the keys a parameter dict can hold, in the order the calculator inserts
\* them, and the keys whose values are strings
ParameterKeys ==
    <<"kvp", "ma", "time_s", "mas", "anode_angle", "target_material", "ssd_cm",
      "filters", "field_size_cm", "phantom_material">>
StringKeys == {"target_material", "phantom_material"}

DumpParameter(p, key) ==
    IF key = "filters"
    THEN DumpList([i \in 1..Len(p[key]) |-> DumpFilter(p[key][i])])
    ELSE IF key \in StringKeys THEN DumpString(p[key])
    ELSE DumpNumber(p[key])

RECURSIVE ParameterMembers(_, _)
ParameterMembers(p, i) ==
    IF i > Len(ParameterKeys) THEN <<>>
    ELSE (IF Has(p, ParameterKeys[i])
          THEN <<Member(ParameterKeys[i], DumpParameter(p, ParameterKeys[i]))>>
          ELSE <<>>)
             \o ParameterMembers(p, i + 1)

DumpParameters(p) == DumpObject(ParameterMembers(p, 1))

\* json.dump(config_data, f, ...)
json_dump(config_data) ==
    DumpObject(
        <<Member("metadata",
                 DumpObject(<<Member("created", DumpString(config_data.metadata.created)),
                              Member("description",
                                     DumpString(config_data.metadata.description)),
                              Member("version", DumpString(config_data.metadata.version))>>)),
          Member("parameters", DumpParameters(config_data.parameters)),
          Member("notes", DumpString(config_data.notes))>>)

\* json.load: the value that starts at token i, and the position after it
RECURSIVE LoadValue(_, _)
RECURSIVE LoadMembers(_, _, _)
RECURSIVE LoadItems(_, _, _)
LoadValue(ts, i) ==
    CASE ts[i][1] = "num" -> [v |-> Number(ts[i][2]), i |-> i + 1]
      [] ts[i][1] = "str" -> [v |-> Joined(Unescape(ts[i][2])), i |-> i + 1]
      [] ts[i][1] = "{" ->
            IF ts[i + 1][1] = "}" THEN [v |-> EmptyDict, i |-> i + 2]
            ELSE LoadMembers(ts, i + 1, EmptyDict)
      [] ts[i][1] = "[" ->
            IF ts[i + 1][1] = "]" THEN [v |-> <<>>, i |-> i + 2]
            ELSE LoadItems(ts, i + 1, <<>>)

\* at the key of a member: key, ":", value, then "," or "}"
LoadMembers(ts, i, acc) ==
    Let(LoadValue(ts, i + 2),
        LAMBDA val :
            IF ts[val.i][1] = ","
            THEN LoadMembers(ts, val.i + 1, Put(acc, ts[i][2], val.v))
            ELSE [v |-> Put(acc, ts[i][2], val.v), i |-> val.i + 1])

\* at an item: value, then "," or "]"
LoadItems(ts, i, acc) ==
    Let(LoadValue(ts, i),
        LAMBDA val :
            IF ts[val.i][1] = ","
            THEN LoadItems(ts, val.i + 1, Append(acc, val.v))
            ELSE [v |-> Append(acc, val.v), i |-> val.i + 1])

json_load(ts) == LoadValue(ts, 1).v

\* the file export_configuration writes for the record results
export_configuration(results) ==
    json_dump([metadata |-> [created |-> "now",
                             description |-> "X-ray calculation configuration",
                             version |-> "1.0.0"],
               parameters |-> Get(results, "parameters", EmptyDict),
               notes |-> "This configuration can be loaded to reproduce the calculation"])

\* faulty variant: the key is misspelt
load_configuration_wrong_key(f) == Get(json_load(f), "parameter", EmptyDict)

\* what load_configuration returns for the file
load_configuration(f) == Get(json_load(f), "parameters", EmptyDict)

\* export_all_formats: the mapping from format to file path, a path being
\* the output directory and the pieces of the file name; None when the call
\* raises. Each exporter is given its file name, so none makes its own.
\* export_spectrum_csv raises when the two arrays differ in length
\* (pd.DataFrame) and when they are empty (np.min)
export_all_formats(energy, fluence, prefix, clock) ==
    LET timestamp == clock
        path(part, ext) == <<"exports", <<prefix, part, timestamp, ext>>>>
        exported_files == [json |-> path("", ".json"),
                           summary_csv |-> path("_summary", ".csv"),
                           config |-> path("_config", ".json")]
    IN  IF energy # None /\ fluence # None
        THEN IF Len(energy[1]) # Len(fluence[1]) \/ Len(energy[1]) = 0
             THEN None
             ELSE Some(Put(exported_files, "spectrum_csv", path("_spectrum", ".csv")))
        ELSE Some(exported_files)

\* the parameter dict a calculator holds after set_clinical_parameters, the
\* add_filtration calls and, with a field size, set_field_parameters; the
\* filter list read through its reference
HeldParameters(c, fl, field) ==
    LET m1 == set_clinical_parameters(ESAKCalculator(<<>>, <<>>),
                                      c[1], c[2], c[3], c[4], c[5], c[6])
        m2 == AddFilters(m1, fl, Len(fl), FALSE)
        m3 == IF field = None THEN m2
              ELSE set_field_parameters(m2, field[1], "water")
    IN  IF Has(m3.parameters, "filters")
        THEN Put(m3.parameters, "filters", m3.lists[m3.parameters["filters"]])
        ELSE m3.parameters

ExportMaterials == {"Al", "Al\""}         \* the second name needs escaping
ExportThicknesses == {0, 12}
ExportFilters == [material : ExportMaterials, thickness : ExportThicknesses]
ExportFilterLists == UNION {[1..n -> ExportFilters] : n \in 0..MaxFilters}
ExportFields == {None, Some(10)}

\* the parameter dicts a calculator can hold, the empty one of a new
\* calculator among them
HeldParameterDicts ==
    {EmptyDict} \cup
    {HeldParameters(c, fl, field) :
        c \in CalcClinical, fl \in ExportFilterLists, field \in ExportFields}

\* the exporter uses neither the engine nor the table file
InitExport ==
    /\ sp_available = TRUE
    /\ bsf_file = TRUE
    /\ CalcStart
    /\ RunsStart
    /\ ExportStart
    /\ AppStart
    /\ DeviceStart
    /\ MetricsStart

\* exporter.export_configuration({'parameters': p})
ExportConfiguration ==
    \E p \in HeldParameterDicts :
        /\ file' = Some(export_configuration([parameters |-> p]))
        /\ file_src' = Some(p)
        /\ loaded' = None
        /\ exported' = None
        /\ UNCHANGED <<sp_available, bsf_file>>
        /\ UNCHANGED <<calcVars, runVars, appVars, deviceVars, metricsVars>>

\* exporter.load_configuration(path) for the file that was written; open()
\* raises when there is none
LoadConfiguration ==
    /\ file # None
    /\ loaded' = Some(load_configuration(file[1]))
    /\ exported' = None
    /\ UNCHANGED <<file, file_src>>
    /\ UNCHANGED <<sp_available, bsf_file>>
    /\ UNCHANGED <<calcVars, runVars, appVars, deviceVars, metricsVars>>

\* exporter.export_all_formats({'parameters': p}, energy, fluence, prefix) at
\* clock time t, for a calculator without filters; energy and fluence are
\* None or arrays such as get_spectrum_data returns, which are empty when it
\* failed. The configuration file is written before the spectrum file is
\* tried
ExportAllFormats ==
    \E p \in {EmptyDict} \cup {HeldParameters(c, <<>>, None) : c \in CalcClinical},
       t \in {1, 2}, prefix \in {"xray_export", "test_all"},
       spectrum \in {<<None, None>>, <<Some(EBins), None>>, <<None, Some(<<1, 2>>)>>,
                     <<Some(<<>>), Some(<<>>)>>, <<Some(EBins), Some(<<1, 2>>)>>} :
        /\ exported' = Some([energy |-> spectrum[1], fluence |-> spectrum[2],
                             prefix |-> prefix,
                             ret |-> export_all_formats(spectrum[1], spectrum[2], prefix, t)])
        /\ file' = Some(export_configuration([parameters |-> p]))
        /\ file_src' = Some(p)
        /\ loaded' = None
        /\ UNCHANGED <<sp_available, bsf_file>>
        /\ UNCHANGED <<calcVars, runVars, appVars, deviceVars, metricsVars>>

NextExport ==
    \/ ExportConfiguration
    \/ LoadConfiguration
    \/ ExportAllFormats

SpecExport == InitExport /\ [][NextExport]_vars

\* C5: what load_configuration returns for the file export_configuration
\* wrote from {'parameters': p} equals p, the filters in the same order.
C5_RoundTrip ==
    loaded # None => loaded[1] = file_src[1]

\* a dict with two different filters, one of a material whose name is
\* escaped, and a field size was exported and loaded
C5_Witness ==
    /\ loaded # None
    /\ Has(loaded[1], "field_size_cm")
    /\ Has(loaded[1], "filters")
    /\ Len(loaded[1]["filters"]) = 2
    /\ loaded[1]["filters"][1] = [material |-> "Al\"", thickness_mm |-> 12]
    /\ loaded[1]["filters"][2] = [material |-> "Al", thickness_mm |-> 0]

\* C17: every export_all_formats call returns a mapping with the keys json,
\* summary_csv and config, plus spectrum_csv exactly when both energy and
\* fluence were given, and all of its files carry the call's prefix and one
\* timestamp.
C17_AllFormats ==
    exported # None =>
        LET e == exported[1]
        IN  /\ e.ret # None
            /\ DOMAIN e.ret[1] =
                    {"json", "summary_csv", "config"} \cup
                    (IF e.energy # None /\ e.fluence # None
                     THEN {"spectrum_csv"} ELSE {})
            /\ \A k \in DOMAIN e.ret[1] : e.ret[1][k][2][1] = e.prefix
            /\ \A j, k \in DOMAIN e.ret[1] : e.ret[1][j][2][3] = e.ret[1][k][2][3]

\* C15: after set_clinical_parameters(kvp, ma, time_s, ...) and n
\* add_filtration calls the parameters hold kvp, mas = ma x time_s and, under
\* 'filters', exactly the n entries passed, in call order.
C15_ParametersHeld ==
    run_last # None =>
        LET r == run_last[1]
            p == r.results["parameters"]
            passed == IF r.skip_zero
                      THEN SelectSeq(r.filters, LAMBDA f : f.thickness > 0)
                      ELSE r.filters
        IN  /\ p["kvp"] = r.clinical[1]
            /\ p["mas"] = r.clinical[2] * r.clinical[3]
            /\ Get(p, "filters", <<>>) =
                   [i \in 1..Len(passed) |->
                       [material |-> passed[i].material,
                        thickness_mm |-> passed[i].thickness]]

\* two different filters were added after 2 mA and 2 s were set
C15_Witness ==
    /\ run_last # None
    /\ run_last[1].clinical[3] = 2
    /\ Len(Get(run_last[1].results["parameters"], "filters", <<>>)) = 2
    /\ run_last[1].filters[1] # run_last[1].filters[2]

(***************************************************************************)
(* The web front end (app.py).  Every user interaction, the change of one  *)
(* widget or the click on one button, makes the script run from top to     *)
(* bottom; safe_rerun() ends the run and starts another.  A widget shows   *)
(* the value the session holds for it unless the user has just changed it. *)
(***************************************************************************)
\* the values the user gives the widgets, by session key
AppValues ==
    [kvp |-> {80, 120}, ma |-> {100, 200}, time_s |-> {1, 2},
     anode_angle |-> {12, 15}, ssd_cm |-> {50, 100},
     target_material |-> {"W", "Mo"}, field_size_cm |-> {10, 20},
     material |-> {"Al", "Cu"}, thickness |-> {0, 1, 2}]

\* the widgets of the clinical settings, the geometry and the target
ClinicalWidgets ==
    {"kvp", "ma", "time_s", "anode_angle", "ssd_cm", "target_material"}

\* faulty variant: the comparison with previous_filters does not clear the
\* results
UpdateFilters_keeping_results(s, fw) ==
    IF fw # s.previous_filters
    THEN [s EXCEPT !.filters = fw, !.previous_filters = fw]
    ELSE [s EXCEPT !.filters = fw]

\* "for i, filter_config in enumerate(filters): ... filters[i] = {...}" with
\* no remove button clicked, fw being what the filter widgets hold, and the
\* comparison with previous_filters that follows the loop
UpdateFilters(s, fw) ==
    IF fw # s.previous_filters
    THEN [s EXCEPT !.filters = fw, !.results = None, !.previous_filters = fw]
    ELSE [s EXCEPT !.filters = fw]

\* faulty variant: the entry's esak_mgy is the value with backscatter when
\* there is one
HistoryEntry_corrected_esak(in, results, clock) ==
    LET entry == [timestamp |-> clock,
                  device_name |-> "",
                  protocol_name |-> "",
                  kvp |-> in.kvp,
                  mas |-> in.ma * in.time_s,
                  esak_mgy |-> Get(results, "esak_with_bsf_mgy",
                                   Get(results, "esak_mgy", Whole(0))),
                  bsf |-> Get(results, "bsf", Whole(1)),
                  hvl1_al_mm |-> Get(results, "hvl1_al_mm", Whole(0))]
    IN  IF Has(results, "esak_with_bsf_mgy")
        THEN Update(entry,
                 [esak_with_bsf_mgy |-> Get(results, "esak_with_bsf_mgy", Whole(0)),
                  field_size_cm |->
                      Get(Get(results, "parameters", EmptyDict), "field_size_cm", 0)])
        ELSE entry

\* the history entry perform_calculation builds from the returned record
HistoryEntry(in, results, clock) ==
    LET entry == [timestamp |-> clock,
                  device_name |-> "",
                  protocol_name |-> "",
                  kvp |-> in.kvp,
                  mas |-> in.ma * in.time_s,
                  esak_mgy |-> Get(results, "esak_mgy", Whole(0)),
                  bsf |-> Get(results, "bsf", Whole(1)),
                  hvl1_al_mm |-> Get(results, "hvl1_al_mm", Whole(0))]
    IN  IF Has(results, "esak_with_bsf_mgy")
        THEN Update(entry,
                 [esak_with_bsf_mgy |-> Get(results, "esak_with_bsf_mgy", Whole(0)),
                  field_size_cm |->
                      Get(Get(results, "parameters", EmptyDict), "field_size_cm", 0)])
        ELSE entry

\* faulty variant: the session keeps the calculator it held
StoreResults_keeping_calculator(s, in, r, clock) ==
    LET results == View(r.m, r.ret)
    IN  IF DOMAIN results # {}
        THEN [session |->
                [s EXCEPT !.results =
                              Some(Put(results, "device_info",
                                       [device_name |-> "", protocol_name |-> "",
                                        timestamp |-> clock])),
                          !.calculation_history =
                              Append(@, HistoryEntry(in, results, clock))],
              message |-> "success"]
        ELSE [session |-> s, message |-> "failed"]

\* perform_calculation from "if results:" on: r is what calculate_all_metrics
\* left and returned on the new calculator
StoreResults(s, in, r, clock) ==
    LET results == View(r.m, r.ret)
        s1 == [s EXCEPT !.calculator = CalculatorView(r.m)]
    IN  IF DOMAIN results # {}
        THEN [session |->
                [s1 EXCEPT !.results =
                               Some(Put(results, "device_info",
                                        [device_name |-> "", protocol_name |-> "",
                                         timestamp |-> clock])),
                           !.calculation_history =
                               Append(@, HistoryEntry(in, results, clock))],
              message |-> "success"]
        ELSE [session |-> s1, message |-> "failed"]

\* no call of the try block raises: the calculator's methods catch what the
\* engine raises, so the except branch is not entered
perform_calculation(s, in, clock) ==
    LET m0 == ESAKCalculator(<<>>, <<>>)
        m1 == set_clinical_parameters(m0, in.kvp, in.ma, in.time_s, in.anode_angle,
                                      in.target_material, in.ssd_cm)
        m2 == AddFilters(m1, s.filters, Len(s.filters), TRUE)
        m3 == IF in.enable_bsf
              THEN set_field_parameters(m2, in.field_size_cm, "water")
              ELSE m2
    IN  Let(calculate_all_metrics(m3), LAMBDA r : StoreResults(s, in, r, clock))

\* one more interaction; the environment, the single calculator, the
\* scenarios and the exporter are not touched
Interaction ==
    /\ now < MaxInteractions
    /\ now' = now + 1
    /\ UNCHANGED <<sp_available, bsf_file>>
    /\ UNCHANGED <<calcVars, runVars, exportVars, deviceVars, metricsVars>>

\* a script run that clicks no button
PlainRun(in, fw) ==
    /\ Interaction
    /\ inputs' = in
    /\ session' = UpdateFilters(session, fw)
    /\ shown' = NothingShown(session'.results)
    /\ UNCHANGED computed_from

InitApp ==
    /\ sp_available \in BOOLEAN
    /\ bsf_file \in BOOLEAN
    /\ CalcStart
    /\ RunsStart
    /\ ExportStart
    /\ AppStart
    /\ DeviceStart
    /\ MetricsStart

\* one of kVp, mA, exposure time, anode angle, SSD or target is changed
ChangeInput ==
    \E k \in ClinicalWidgets :
        \E v \in AppValues[k] \ {inputs[k]} :
            PlainRun([inputs EXCEPT ![k] = v], session.filters)

\* the field size widget exists only while the box is ticked; without it
\* field_size_cm is 10.0, which is also the widget's first value
ToggleBsf ==
    \E v \in BOOLEAN \ {inputs.enable_bsf} :
        PlainRun([inputs EXCEPT !.enable_bsf = v, !.field_size_cm = 10],
                 session.filters)

ChangeFieldSize ==
    /\ inputs.enable_bsf
    /\ \E v \in AppValues["field_size_cm"] \ {inputs.field_size_cm} :
           PlainRun([inputs EXCEPT !.field_size_cm = v], session.filters)

ChangeFilterMaterial ==
    \E i \in 1..Len(session.filters) :
        \E v \in AppValues["material"] \ {session.filters[i].material} :
            PlainRun(inputs, [session.filters EXCEPT ![i].material = v])

ChangeFilterThickness ==
    \E i \in 1..Len(session.filters) :
        \E v \in AppValues["thickness"] \ {session.filters[i].thickness} :
            PlainRun(inputs, [session.filters EXCEPT ![i].thickness = v])

\* the remove button of entry i: pop, results cleared, and the run that
\* safe_rerun() starts
ClickRemove(i) ==
    /\ Interaction
    /\ session' = UpdateFilters([session EXCEPT !.filters = Pop(@, i),
                                                !.results = None],
                                Pop(session.filters, i))
    /\ shown' = NothingShown(session'.results)
    /\ UNCHANGED <<inputs, computed_from>>

ClickRemoveFilter ==
    \E i \in 1..Len(session.filters) : ClickRemove(i)

\* the add button: the comparison of the run, the append, results cleared,
\* and the run that safe_rerun() starts
ClickAddFilter ==
    /\ Interaction
    /\ Len(session.filters) < MaxFilters
    /\ LET s1 == UpdateFilters(session, session.filters)
           fl == Append(s1.filters, Filter("Al", 1))
       IN  session' = UpdateFilters([s1 EXCEPT !.filters = fl, !.results = None], fl)
    /\ shown' = NothingShown(session'.results)
    /\ UNCHANGED <<inputs, computed_from>>

\* the calculate button: perform_calculation, then display_results() if the
\* session holds results
ClickCalculate ==
    /\ Interaction
    /\ LET done == perform_calculation(UpdateFilters(session, session.filters),
                                       inputs, now + 1)
       IN  /\ session' = done.session
           /\ shown' = [message |-> done.message,
                        results_displayed |-> done.session.results # None]
    /\ computed_from' = Some([inputs |-> inputs, filters |-> session.filters])
    /\ UNCHANGED inputs

\* the clear button of the footer, shown while the history is not empty, and
\* the run that safe_rerun() starts
ClickClearHistory ==
    /\ Interaction
    /\ session.calculation_history # <<>>
    /\ session' = [UpdateFilters(session, session.filters)
                      EXCEPT !.calculation_history = <<>>]
    /\ shown' = NothingShown(session'.results)
    /\ UNCHANGED <<inputs, computed_from>>

NextApp ==
    \/ ChangeInput
    \/ ToggleBsf
    \/ ChangeFieldSize
    \/ ChangeFilterMaterial
    \/ ChangeFilterThickness
    \/ ClickRemoveFilter
    \/ ClickAddFilter
    \/ ClickCalculate
    \/ ClickClearHistory

SpecApp == InitApp /\ [][NextApp]_vars

(***************************************************************************)
(* Properties of the web front end.                                        *)
(***************************************************************************)
\* C7: a calculation whose spectrum could not be generated (the engine is
\* unavailable or generation fails) shows a failure message, never the
\* success message, stores no result record of its own in the session and
\* appends no history entry.
C7_FailureReported ==
    (shown.message # "none" /\ session.calculator.spectrum = None) =>
        /\ shown.message \in {"failed", "error"}
        /\ session.results = None \/ session.results[1]["device_info"].timestamp # now
        /\ \A i \in 1..Len(session.calculation_history) :
               session.calculation_history[i]["timestamp"] # now

\* C8: at the end of every script run the session holds results only if
\* every input (kVp, mA, exposure time, anode angle, SSD, target material,
\* BSF toggle, field size, the filters) still has the value the results were
\* computed from.
C8_ResetOnChange ==
    session.results # None =>
        computed_from = Some([inputs |-> inputs, filters |-> session.filters])

\* C19: at the end of every script run in which the session holds results,
\* the filter list echoed in them equals the positive-thickness entries of
\* the session's filter list, in order; and a run in which a filter was
\* added, removed or edited ends with results None.
C19_StaleCleared ==
    /\ [](session.results # None =>
            LET echoed == Get(session.results[1]["parameters"], "filters", <<>>)
                positive == SelectSeq(session.filters, LAMBDA f : f.thickness > 0)
            IN  echoed = [i \in 1..Len(positive) |->
                            [material |-> positive[i].material,
                             thickness_mm |-> positive[i].thickness]])
    /\ [][session'.filters # session.filters => session'.results = None]_vars

\* a filter was added, the first one was set to thickness 0, and results
\* are held for that list of two filters
C19_Witness ==
    /\ session.results # None
    /\ Len(Get(session.results[1]["parameters"], "filters", <<>>)) = 1
    /\ Len(session.filters) = 2
    /\ session.filters[1].thickness = 0
    /\ session.filters[2].thickness > 0

\* C24: whenever the session holds results, the session's calculator is the
\* one that produced them: its parameters are the parameters echoed in the
\* results, and its spectrum is the one built from them (none when the
\* engine is missing).
C24_CalculatorOfResults ==
    session.results # None =>
        LET p == session.calculator.parameters
            fl == Get(p, "filters", <<>>)
        IN  /\ session.results[1]["parameters"] = p
            /\ session.calculator.spectrum =
                  IF sp_available
                  THEN Some(ApplyFilters(Spek(p["kvp"], p["anode_angle"]), fl, Len(fl)))
                  ELSE None

\* a second calculation was made with another tube potential: the results
\* and the calculator are those of the second one
C24_Witness ==
    /\ session.results # None
    /\ Len(session.calculation_history) = 2
    /\ session.calculation_history[1].kvp # session.calculation_history[2].kvp
    /\ session.calculator.spectrum # None

C26_HistoryAppendOnly ==
    [][LET before == session.calculation_history
           after == session'.calculation_history
       IN  IF ClickCalculate /\ session'.results # None
           THEN LET record == session'.results[1]
                    entry == after[Len(after)]
                IN  /\ Len(after) = Len(before) + 1
                    /\ SubSeq(after, 1, Len(before)) = before
                    /\ entry.kvp = inputs.kvp
                    /\ entry.mas = inputs.ma * inputs.time_s
                    /\ entry.esak_mgy = record["esak_mgy"]
                    /\ entry.bsf = record["bsf"]
                    /\ entry.hvl1_al_mm = Get(record, "hvl1_al_mm", Whole(0))
           ELSE IF ClickClearHistory THEN after = <<>>
           ELSE after = before]_vars

\* a calculation, Clear History, and a second calculation: the list holds
\* the entry of the second one alone
C26_Witness ==
    /\ Len(session.calculation_history) = 1
    /\ session.calculation_history[1].timestamp = 3

(***************************************************************************)
(* The device manager driven through add_device, update_device and         *)
(* remove_device in any order.                                             *)
(***************************************************************************)
DeviceCall(op, name, kwargs, ret) ==
    Some([op |-> op, name |-> name, kwargs |-> kwargs, ret |-> ret])

\* the names passed as arguments: the predefined ones and one more
DeviceNameArgs == {load_device_configurations[i].name : i \in 1..4} \cup {"Custom Device"}

\* the keyword arguments passed to update_device
UpdateKwargs ==
    { [anode_angle |-> Whole(10)],
      [name |-> "Custom Device"],
      [colour |-> "red", description |-> "moved"] }

\* add_device(DeviceConfiguration(name=..., ...)) with a new object
AddNewDevice ==
    /\ device_ops < MaxDeviceOps
    /\ \E name \in {"ALULA", "Custom Device"} :
          /\ device_objects' =
                 Append(device_objects, DeviceConfiguration(name, Whole(10), "Cu", Whole(1), ""))
          /\ devices' = add_device(devices, device_objects', Len(device_objects'))
          /\ device_call' = DeviceCall("add_device", name, EmptyDict, None)
    /\ device_ops' = device_ops + 1
    /\ UNCHANGED <<sp_available, bsf_file, calcVars, runVars, exportVars, appVars, metricsVars>>

\* add_device(get_device_configuration(name)): an object the registry holds
AddHeldDevice ==
    /\ device_ops < MaxDeviceOps
    /\ \E held \in {"ALULA", "Custom Device"} :
          /\ get_device_configuration(devices, held) # None
          /\ LET ref == get_device_configuration(devices, held)[1]
             IN  /\ devices' = add_device(devices, device_objects, ref)
                 /\ device_call' =
                        DeviceCall("add_device", device_objects[ref].name, EmptyDict, None)
    /\ device_ops' = device_ops + 1
    /\ UNCHANGED device_objects
    /\ UNCHANGED <<sp_available, bsf_file, calcVars, runVars, exportVars, appVars, metricsVars>>

UpdateDevice ==
    /\ device_ops < MaxDeviceOps
    /\ \E device_name \in {"ALULA", "Custom Device"}, kwargs \in UpdateKwargs :
          LET r == update_device(devices, device_objects, device_name, kwargs)
          IN  /\ devices' = r.devices
              /\ device_objects' = r.objects
              /\ device_call' = DeviceCall("update_device", device_name, kwargs, Some(r.ret))
    /\ device_ops' = device_ops + 1
    /\ UNCHANGED <<sp_available, bsf_file, calcVars, runVars, exportVars, appVars, metricsVars>>

RemoveDevice ==
    /\ device_ops < MaxDeviceOps
    /\ \E device_name \in DeviceNameArgs :
          LET r == remove_device(devices, device_name)
          IN  /\ devices' = r.devices
              /\ device_call' = DeviceCall("remove_device", device_name, EmptyDict, Some(r.ret))
    /\ device_ops' = device_ops + 1
    /\ UNCHANGED device_objects
    /\ UNCHANGED <<sp_available, bsf_file, calcVars, runVars, exportVars, appVars, metricsVars>>

InitDevices ==
    /\ sp_available = TRUE
    /\ bsf_file = TRUE
    /\ CalcStart
    /\ RunsStart
    /\ ExportStart
    /\ AppStart
    /\ DeviceStart
    /\ MetricsStart

NextDevices ==
    \/ AddNewDevice
    \/ AddHeldDevice
    \/ UpdateDevice
    \/ RemoveDevice

SpecDevices == InitDevices /\ [][NextDevices]_vars

\* the keys of the registry
Registered(d) == {d[i].key : i \in 1..Len(d)}

\* the configuration registered under a key, by value
ConfigurationOf(d, objects, device_name) == objects[d[KeyIndex(d, device_name)].ref]

\* C27: update_device and remove_device return True exactly when the name
\* is registered at call time; a call that returns False leaves the
\* registry as it was; after a remove_device that returned True the name is
\* no longer predefined, its configuration is None, and every other device
\* is registered as before with the configuration it had.
C27_ReturnsWhetherRegistered ==
    [][device_call' # None /\ device_call'[1].op \in {"update_device", "remove_device"} =>
          LET call == device_call'[1]
              ret == call.ret[1]
          IN  /\ ret = (call.name \in Registered(devices))
              /\ ~ret => devices' = devices /\ device_objects' = device_objects
              /\ (ret /\ call.op = "remove_device") =>
                    /\ ~is_predefined_device(devices', call.name)
                    /\ get_device_configuration(devices', call.name) = None
                    /\ Registered(devices') = Registered(devices) \ {call.name}
                    /\ \A m \in Registered(devices') :
                          /\ get_device_configuration(devices', m) =
                                 get_device_configuration(devices, m)
                          /\ ConfigurationOf(devices', device_objects', m) =
                                 ConfigurationOf(devices, device_objects, m)]_vars

\* a device was removed and, after that, an update of the removed name
\* was refused
C27_Witness ==
    /\ device_call # None
    /\ device_call[1].op = "update_device"
    /\ device_call[1].name = "ALULA"
    /\ device_call[1].ret = Some(FALSE)
    /\ "ALULA" \notin Registered(devices)
    /\ Len(devices) = 3

\* C28: every registered configuration's name field equals the key it is
\* registered under.
C28_KeyIsName ==
    \A i \in 1..Len(devices) : device_objects[devices[i].ref].name = devices[i].key

\* C29: the dropdown options are the registered names in insertion order
\* followed by the custom-input option: the four predefined names at the
\* start; a name added while not registered goes last among the names, a
\* name added while registered stays where it is, a removed name drops
\* out, an update changes nothing; the custom-input option is always the
\* last element, also when no device is registered.
C29_DropdownOptions ==
    /\ get_device_options_for_dropdown(devices) =
           <<"1,2: RAD speed Pro", "3: RAD speed Pro", "ALULA", "Varian kV Imager",
             CustomInputOption>>
    /\ [][device_call' # None =>
             LET call == device_call'[1]
                 before == get_device_options_for_dropdown(devices)
                 after == get_device_options_for_dropdown(devices')
                 names == SubSeq(before, 1, Len(before) - 1)
             IN  /\ after # <<>>
                 /\ after[Len(after)] = CustomInputOption
                 /\ Len(after) = Cardinality(Registered(devices')) + 1
                 /\ SubSeq(after, 1, Len(after) - 1) =
                        CASE call.op = "add_device" /\ call.name \notin Registered(devices)
                               -> Append(names, call.name)
                          [] call.op = "remove_device"
                               -> SelectSeq(names, LAMBDA n : n # call.name)
                          [] OTHER -> names]_vars

\* all four predefined devices were removed: the custom-input option alone
C29_Witness ==
    /\ devices = <<>>
    /\ device_ops = 4
    /\ get_device_options_for_dropdown(devices) = <<CustomInputOption>>

(***************************************************************************)
(* One call of get_metrics, made the way cnrd_kidney.py makes it, followed *)
(* through its loop.                                                       *)
(***************************************************************************)
\* the tissue dicts of cnrd_kidney.py for a patient thickness
Background(pat_thick) ==
    << <<"Tissue, Soft Four Component (ICRU)", pat_thick - 1>>,
       <<"Adipose Tissue (ICRU)", 1>> >>

Signal(pat_thick) ==
    << <<"Tissue, Soft Four Component (ICRU)", pat_thick - 1>>,
       <<"Kidney (ICRU)", 1>> >>

\* matd, td, rhod, f, w and G of cnrd_kidney.py
Detector ==
    [matd |-> "Cesium Iodide", td |-> <<3, 100>>, rhod |-> <<451, 100>>,
     f |-> <<17, 20>>, w |-> <<1, 100>>, G |-> <<1, 2>>]

MetricsCalls ==
    { [bg |-> Background(pat_thick), sg |-> Signal(pat_thick), SDD |-> SDD, SOD |-> SOD,
       kV_inc |-> kV_inc, physics |-> "casim", detector |-> Detector] :
         pat_thick \in {15, 20, 25}, SDD \in {100, 110}, SOD \in {90, 50},
         kV_inc \in {1, 5, 30, 101} }

InitMetrics ==
    /\ sp_available = TRUE
    /\ bsf_file = TRUE
    /\ CalcStart
    /\ RunsStart
    /\ ExportStart
    /\ AppStart
    /\ DeviceStart
    /\ \E a \in MetricsCalls : frame = Some([args |-> a, pc |-> "called", locals |-> None, ret |-> None])
    /\ spek_log = <<>>

\* lines 29-47: mu_data from a default spectrum, the source-to-skin
\* distance, the grid and the four arrays of zeros
EnterGetMetrics ==
    /\ frame # None
    /\ frame[1].pc = "called"
    /\ LET a == frame[1].args
           kV_set == arange(50, 151, a.kV_inc)
       IN  frame' = Some([frame[1] EXCEPT
                        !.pc = "loop",
                        !.locals = Some([SSD |-> a.SDD - Thickness(a.bg),
                                         kV_set |-> kV_set,
                                         contrast |-> zeros(Len(kV_set)),
                                         cnrd |-> zeros(Len(kV_set)),
                                         cnr |-> zeros(Len(kV_set)),
                                         ki |-> zeros(Len(kV_set)),
                                         i |-> 0,
                                         at |-> 1])])
    /\ spek_log' = Append(spek_log, [kvp |-> None])
    /\ UNCHANGED <<sp_available, bsf_file, calcVars, runVars, exportVars, appVars, deviceVars>>

\* lines 48-90: one pass of for kV in kV_set, storing at index i
LoopPass ==
    /\ frame # None
    /\ frame[1].pc = "loop"
    /\ LET a == frame[1].args
           l == frame[1].locals[1]
       IN  /\ l.at <= Len(l.kV_set)
           /\ LET kV == l.kV_set[l.at]
                  r == LoopBody(a, l.SSD, kV)
              IN  /\ frame' = Some([frame[1] EXCEPT
                                   !.locals = Some([l EXCEPT
                                       !.contrast[l.i + 1] = r.contrast,
                                       !.cnr[l.i + 1] = r.cnr,
                                       !.ki[l.i + 1] = r.ki,
                                       !.cnrd[l.i + 1] = r.cnrd,
                                       !.i = l.i + 1,
                                       !.at = l.at + 1])])
                  /\ spek_log' = Append(spek_log, [kvp |-> Some(kV)])
    /\ UNCHANGED <<sp_available, bsf_file, calcVars, runVars, exportVars, appVars, deviceVars>>

\* line 92
ReturnMetrics ==
    /\ frame # None
    /\ frame[1].pc = "loop"
    /\ LET l == frame[1].locals[1]
       IN  /\ l.at > Len(l.kV_set)
           /\ frame' = Some([frame[1] EXCEPT
                            !.pc = "returned",
                            !.ret = Some([kV_set |-> l.kV_set, contrast |-> l.contrast,
                                          cnr |-> l.cnr, ki |-> l.ki, cnrd |-> l.cnrd])])
    /\ UNCHANGED spek_log
    /\ UNCHANGED <<sp_available, bsf_file, calcVars, runVars, exportVars, appVars, deviceVars>>

NextMetrics ==
    \/ EnterGetMetrics
    \/ LoopPass
    \/ ReturnMetrics

SpecMetrics == InitMetrics /\ [][NextMetrics]_vars

\* C30: when get_metrics returns, kV_set is 50, 50 + kV_inc, ... below 151
\* in increasing order, the loop asked the engine for a spectrum at each of
\* these potentials once and in that order, the five arrays have one
\* length, and index i of contrast, cnr, ki and cnrd holds the scalars of
\* the pass for kV_set[i], computed with the source-to-skin distance SDD
\* minus the summed background thicknesses and the same whatever SOD is.
C30_GridAndAlignment ==
    (frame # None /\ frame[1].pc = "returned") =>
        LET a == frame[1].args
            ret == frame[1].ret[1]
            n == Len(ret.kV_set)
            SSD == a.SDD - (a.bg[1][2] + a.bg[2][2])
            passes == SelectSeq(spek_log, LAMBDA e : e.kvp # None)
        IN  /\ \A j \in 1..n : ret.kV_set[j] = 50 + (j - 1) * a.kV_inc
            /\ n > 0 /\ ret.kV_set[n] < 151 /\ ret.kV_set[n] + a.kV_inc >= 151
            /\ passes = [j \in 1..n |-> [kvp |-> Some(ret.kV_set[j])]]
            /\ Len(ret.contrast) = n /\ Len(ret.cnr) = n
            /\ Len(ret.ki) = n /\ Len(ret.cnrd) = n
            /\ \A j \in 1..n :
                  LET r == LoopBody([a EXCEPT !.SOD = 0], SSD, ret.kV_set[j])
                  IN  /\ ret.contrast[j] = r.contrast
                      /\ ret.cnr[j] = r.cnr
                      /\ ret.ki[j] = r.ki
                      /\ ret.cnrd[j] = r.cnrd
                      /\ ret.ki[j].z = SSD
                      /\ ret.ki[j].spectrum.kvp = ret.kV_set[j]
                      /\ ret.contrast[j].sigb.spectrum.kvp = ret.kV_set[j]
                      /\ ret.contrast[j].sigs.spectrum.kvp = ret.kV_set[j]

\* a call with an increment that does not divide the range has returned:
\* 50, 80, 110 and 140 kV
C30_Witness ==
    /\ frame # None
    /\ frame[1].pc = "returned"
    /\ frame[1].args.kV_inc = 30
    /\ frame[1].args.SOD = 50
    /\ frame[1].ret[1].kV_set = <<50, 80, 110, 140>>
    /\ Len(frame[1].ret[1].cnrd) = 4

====
